---- MODULE Spec2Model ----
(***************************************************************************)
(* Weekly release extraction and reconciliation pipeline:                  *)
(*   extract.py    discovery, deploy-date resolution, snapshot persistence *)
(*   summarize.py  week argument, snapshot lookback (last_non_null)        *)
(*   check_gaps.py snapshot key normalisation                              *)
(*                                                                         *)
(* Text that the code inspects character by character (week arguments,    *)
(* snapshot keys) is a sequence of one-character strings.  Python's None   *)
(* is Null for JSON values and NoneInt for optional integers.              *)
(***************************************************************************)
EXTENDS Integers, Sequences, FiniteSets, TLC

VARIABLES
    stopper,        \* the snapshot store document: week key -> entry
    target_year,    \* the run's target ISO year
    target_week,    \* the run's target ISO week
    lookup_family,  \* last_non_null's `key` argument of the last lookup
    lookup_result,  \* what last_non_null returned
    lookup_from,    \* the store key the returned value was read from
    parsed,         \* last_non_null's normalised key list of the last lookup
    gaps_parsed,    \* check_gaps: parse_stopper_key of every store key
    store_entry,    \* extract.py: the entry computed by the last run
    force_overwrite,\* extract.py: --force of the last run
    existing,       \* extract.py: stopper.get(week_str) of the last run
    has_changed,    \* data_has_changed(existing, store_entry) of the last run
    saved,          \* whether the last run called save_stopper
    runs,           \* number of extraction runs that reached the persist step
    argv_week,      \* the text after --week, NoArg without the option
    arg_parts,      \* the year, letter and week number argv_week was written from
    today,          \* datetime.date.today() as <<year, month, day>>
    override_year,  \* extract.py: year parsed from --week, NoneInt for None
    override_week,  \* extract.py: week parsed from --week, NoneInt for None
    pc,             \* extract.py: position of the run
    exit_code,      \* extract.py: sys.exit status, NoneInt while running
    fetched,        \* whether the board issues were fetched
    report_written, \* whether Linked_Issues_Report.txt was written
    snapshot_written, \* whether the persist step was reached
    issue_key,      \* discovery loop: `key` of the issue just processed
    summary,        \* discovery loop: its summary
    issuetype,      \* discovery loop: its issue type name
    records,        \* APIM/EAH candidates found by the summary regexes
    candidate_keys, \* enabler family -> its <family>_candidate_keys list
    histories,      \* issue_json["changelog"]["histories"] of the fetched issue
    prod_date,      \* get_prod_date_from_history's result
    deploying_date, \* get_deploying_to_prod_date_from_history's result
    awaiting_date,  \* get_awaiting_go_nogo_date_from_history's result
    sel_cand,       \* selection loops: the candidate of the iteration just run
    sel_before,     \* selection loops: the global summary_full the iteration was entered with
    sel_result,     \* selection loops: what the iteration appended and left behind
    run_cands,      \* one run: the candidates of the selection loops, in loop order
    run_pos,        \* one run: index of the next candidate
    run_pc,         \* one run: position of extract.py and of run_workflow
    run_summary_full, \* one run: the global summary_full
    run_enablers,   \* one run: the <family>_enablers lists, in append order
    run_report,     \* one run: the text of Linked_Issues_Report.txt
    run_entry,      \* one run: store_entry as written to the store
    run_total,      \* run_workflow: total_releases
    run_blocks,     \* summarize.py: parse_blocks of the report
    file_exists,    \* weekly_stopper.json: os.path.exists
    file_text,      \* weekly_stopper.json: its content, as JSON tokens
    wr_pc,          \* the saving run: its position
    wr_old,         \* the saving run: the store it loaded
    wr_data,        \* the saving run: the store it saves
    wr_pending,     \* the saving run: tokens json.dump produced that are not yet in the file
    rd_stage,       \* the last reader of the store document
    rd_text,        \* what it found in the file, Missing for no file
    rd_store,       \* the store it went on with
    rd_raised,      \* whether the read raised
    parse_raw,      \* summarize.py: the text of the report, as lines
    parse_pc,       \* summarize.py: position in the parse
    parse_out,      \* summarize.py: blocks
    parse_pv,       \* summarize.py: pv, the result of build_changes
    parse_raised,   \* summarize.py: whether the parse raised
    flow_arg,       \* run_workflow: request.args.get("week")
    flow_gaps_out,  \* run_workflow: stdout of check_gaps.py
    flow_weeks,     \* run_workflow: weeks_to_process
    flow_i,         \* run_workflow: index of process_week in weeks_to_process
    flow_pc,        \* run_workflow: position of the handler
    flow_log,       \* run_workflow: the commands run so far, with their exit codes
    flow_urls,      \* run_workflow: published_urls
    flow_response,  \* run_workflow: the JSON response, NoEntry while running
    rcz_date,       \* get_rcz_release_date: its result, Pending before the call
    gaps_today,     \* check_gaps.py: datetime.date.today()
    gaps_argv,      \* check_gaps.py: the text after --week, NoArg without the option
    gaps_env,       \* check_gaps.py: whether the Confluence credentials are set and the requests answer
    gaps_pages,     \* Confluence: the week texts of the titles of the existing pages
    gaps_pc,        \* check_gaps.py: position of the script
    gaps_weeks,     \* check_gaps.py: unpublished_weeks, the (year, week, display) tuples
    gaps_list,      \* check_gaps.py: unpublished_list as printed
    gaps_exit,      \* check_gaps.py: sys.exit status, NoneInt while running
    pub_week,       \* publish.py: read_week(), the week of the page title
    pub_html,       \* publish.py: whether summary_output.html exists
    pub_existed,    \* Confluence: whether a page with the title existed before the run
    pub_exists,     \* Confluence: whether a page with the title exists now
    pub_pc,         \* publish.py: position of main
    pub_first,      \* publish.py: is_first_time_generation
    pub_page_id,    \* publish.py: page_id
    pub_log,        \* publish.py: the requests sent and how they were answered
    pub_done,       \* publish.py: what the run did to the page
    pub_notified,   \* publish.py: whether send_notification_email was called
    pub_exit,       \* publish.py: exit status, NoneInt while running
    id_argv,        \* the --week argument given to the three scripts, NoArg when absent
    id_today,       \* datetime.date.today() of the three runs
    id_pc,          \* which script runs next
    id_week_str,    \* extract.py: week_str, the snapshot key
    id_display,     \* summarize.py: week_display
    id_week_file,   \* content of WEEK_FILE, Null while absent
    id_title_week,  \* publish.py: read_week(), the week of the page title
    id_exit         \* exit status of the script that stopped the sequence

baseVars == <<stopper, target_year, target_week>>

storeVars == <<lookup_family, lookup_result, lookup_from, parsed, gaps_parsed>>

persistVars == <<store_entry, force_overwrite, existing, has_changed, saved, runs>>

weekVars == <<argv_week, arg_parts, today, override_year, override_week, pc,
              exit_code, fetched, report_written, snapshot_written>>

discVars == <<issue_key, summary, issuetype, records, candidate_keys>>

histVars == <<histories, prod_date, deploying_date, awaiting_date>>

selVars == <<sel_cand, sel_before, sel_result>>

runVars == <<run_cands, run_pos, run_pc, run_summary_full, run_enablers, run_report,
            run_entry, run_total, run_blocks>>

fileVars == <<file_exists, file_text, wr_pc, wr_old, wr_data, wr_pending, rd_stage,
             rd_text, rd_store, rd_raised>>

parseVars == <<parse_raw, parse_pc, parse_out, parse_pv, parse_raised>>

flowVars == <<flow_arg, flow_gaps_out, flow_weeks, flow_i, flow_pc, flow_log, flow_urls, flow_response>>

rczVars == <<rcz_date>>

gapsVars == <<gaps_today, gaps_argv, gaps_env, gaps_pages, gaps_pc, gaps_weeks, gaps_list, gaps_exit>>

pubVars == <<pub_week, pub_html, pub_existed, pub_exists, pub_pc, pub_first, pub_page_id, pub_log, pub_done, pub_notified, pub_exit>>

idVars == <<id_argv, id_today, id_pc, id_week_str, id_display, id_week_file, id_title_week, id_exit>>

vars == <<baseVars, storeVars, persistVars, weekVars, discVars, histVars, selVars, runVars, fileVars, parseVars, flowVars, rczVars, gapsVars, pubVars, idVars>>

\* what the actions of one part leave alone
outsideStore == <<persistVars, weekVars, discVars, histVars, selVars, runVars, fileVars, parseVars, flowVars, rczVars, gapsVars, pubVars, idVars>>
outsidePersist == <<storeVars, weekVars, discVars, histVars, selVars, runVars, fileVars, parseVars, flowVars, rczVars, gapsVars, pubVars, idVars>>
outsideWeek == <<storeVars, persistVars, discVars, histVars, selVars, runVars, fileVars, parseVars, flowVars, rczVars, gapsVars, pubVars, idVars>>
outsideDisc == <<baseVars, storeVars, persistVars, weekVars, histVars, selVars, runVars, fileVars, parseVars, flowVars, rczVars, gapsVars, pubVars, idVars>>
outsideHist == <<baseVars, storeVars, persistVars, weekVars, discVars, selVars, runVars, fileVars, parseVars, flowVars, rczVars, gapsVars, pubVars, idVars>>
outsideSel == <<baseVars, storeVars, persistVars, weekVars, discVars, histVars, runVars, fileVars, parseVars, flowVars, rczVars, gapsVars, pubVars, idVars>>
outsideRun == <<storeVars, persistVars, weekVars, discVars, histVars, selVars, fileVars, parseVars, flowVars, rczVars, gapsVars, pubVars, idVars>>
outsideFile == <<baseVars, storeVars, persistVars, weekVars, discVars, histVars, selVars, runVars, parseVars, flowVars, rczVars, gapsVars, pubVars, idVars>>
outsideParse == <<storeVars, persistVars, weekVars, discVars, histVars, selVars, runVars, fileVars, flowVars, rczVars, gapsVars, pubVars, idVars>>
outsideFlow == <<baseVars, storeVars, persistVars, weekVars, discVars, histVars, selVars, runVars, fileVars, parseVars, rczVars, gapsVars, pubVars, idVars>>
outsideRcz == <<baseVars, storeVars, persistVars, weekVars, discVars, histVars, selVars, runVars, fileVars, parseVars, flowVars, gapsVars, pubVars, idVars>>
outsideGaps == <<storeVars, persistVars, weekVars, discVars, histVars, selVars, runVars, fileVars, parseVars, flowVars, rczVars, pubVars, idVars>>
outsidePub == <<storeVars, persistVars, weekVars, discVars, histVars, selVars, runVars, fileVars, parseVars, flowVars, rczVars, gapsVars, idVars>>
outsideId == <<baseVars, storeVars, persistVars, weekVars, discVars, histVars, selVars, runVars, fileVars, parseVars, flowVars, rczVars, gapsVars, pubVars>>

----------------------------------------------------------------------------
(* Values and text                                                         *)

Null == "null"
NoneInt == 0 - 1
NoKey == <<>>
NoEntry == <<>>

Families ==
    {"APIM", "EAH", "DOCG", "VDR", "PATRIC-SSDP", "RCZ", "SYNAPSE", "REFTEL",
     "CALVA", "REFSER2", "SERING", "VDP_PROC", "VDP_DS", "VDP_DS_SSDP",
     "VDP_DS_MON", "VDP_STORE", "VDP_STORE_2"}

Digits == {"0", "1", "2", "3", "4", "5", "6", "7", "8", "9"}

DigitVal(c) ==
    CASE c = "0" -> 0 [] c = "1" -> 1 [] c = "2" -> 2 [] c = "3" -> 3
      [] c = "4" -> 4 [] c = "5" -> 5 [] c = "6" -> 6 [] c = "7" -> 7
      [] c = "8" -> 8 [] c = "9" -> 9

DigitChar(n) ==
    CASE n = 0 -> "0" [] n = 1 -> "1" [] n = 2 -> "2" [] n = 3 -> "3"
      [] n = 4 -> "4" [] n = 5 -> "5" [] n = 6 -> "6" [] n = 7 -> "7"
      [] n = 8 -> "8" [] n = 9 -> "9"

\* ord() of the characters that occur in week arguments and snapshot keys
Ord(c) ==
    CASE c = " " -> 32 [] c = "-" -> 45 [] c \in Digits -> 48 + DigitVal(c)
      [] c = "W" -> 87 [] c = "_" -> 95 [] c = "w" -> 119 [] OTHER -> 120

IsDigits(s) == \A i \in 1..Len(s) : s[i] \in Digits

\* int(s) for a string of decimal digits
RECURSIVE ToInt(_)
ToInt(s) ==
    IF s = <<>> THEN 0
    ELSE 10 * ToInt(SubSeq(s, 1, Len(s) - 1)) + DigitVal(s[Len(s)])

\* str(n) for n >= 0
RECURSIVE Str(_)
Str(n) ==
    IF n < 10 THEN <<DigitChar(n)>>
    ELSE Str(n \div 10) \o <<DigitChar(n % 10)>>

\* f"{n:02d}"
Pad2(n) == IF n < 10 THEN <<"0">> \o Str(n) ELSE Str(n)

\* Python's < on str
RECURSIVE StrLess(_, _)
StrLess(a, b) ==
    IF b = <<>> THEN FALSE
    ELSE IF a = <<>> THEN TRUE
    ELSE IF Ord(Head(a)) # Ord(Head(b)) THEN Ord(Head(a)) < Ord(Head(b))
    ELSE StrLess(Tail(a), Tail(b))

\* Python's < on (year, week) tuples
WeekLess(y1, w1, y2, w2) == y1 < y2 \/ (y1 = y2 /\ w1 < w2)

\* Python's < on (year, week, raw) tuples
TupleLess(t, u) ==
    \/ WeekLess(t[1], t[2], u[1], u[2])
    \/ (t[1] = u[1] /\ t[2] = u[2] /\ StrLess(t[3], u[3]))

\* list.sort() of a list of distinct tuples
RECURSIVE SortTuples(_)
SortTuples(S) ==
    IF S = {} THEN <<>>
    ELSE LET m == CHOOSE t \in S : \A u \in S \ {t} : TupleLess(t, u)
         IN  <<m>> \o SortTuples(S \ {m})

\* dict.get(key) on a snapshot entry
Get(entry, key) == IF key \in DOMAIN entry THEN entry[key] ELSE Null

----------------------------------------------------------------------------
(* Snapshot keys: summarize._parse_stopper_key, check_gaps.parse_stopper_key *)

\* ^(?P<y>\d{4})-W?(?P<w>\d{1,2})$ : the digits of the week group, or <<>>
YearWeekKeyWeek(k) ==
    IF Len(k) >= 6 /\ IsDigits(SubSeq(k, 1, 4)) /\ k[5] = "-"
    THEN LET rest == SubSeq(k, 6, Len(k))
             wk   == IF rest[1] = "W" THEN Tail(rest) ELSE rest
         IN  IF Len(wk) \in {1, 2} /\ IsDigits(wk) THEN wk ELSE <<>>
    ELSE <<>>

\* ^(?P<w>\d{1,2})$
BareKeyMatches(k) == Len(k) \in {1, 2} /\ IsDigits(k)

\* summarize._parse_stopper_key: <<year or NoneInt, week or NoneInt>>
summarize_parse_stopper_key(k) ==
    IF YearWeekKeyWeek(k) # <<>>
    THEN <<ToInt(SubSeq(k, 1, 4)), ToInt(YearWeekKeyWeek(k))>>
    ELSE IF BareKeyMatches(k) THEN <<NoneInt, ToInt(k)>>
    ELSE <<NoneInt, NoneInt>>

\* the year last_non_null gives a key whose parsed year is y and week is w
YearIsPreviousMut(tw, w) == tw <= 10 /\ w >= 40
YearIsPrevious(tw, w) == tw <= 10 /\ w > 40

EffectiveYear(y, w, ty, tw) ==
    IF y = NoneInt
    THEN IF YearIsPrevious(tw, w) THEN ty - 1 ELSE ty
    ELSE y

\* check_gaps.parse_stopper_key: <<year, week>> with the year already inferred
check_gaps_parse_stopper_key(k, ty, tw) ==
    IF YearWeekKeyWeek(k) # <<>>
    THEN <<ToInt(SubSeq(k, 1, 4)), ToInt(YearWeekKeyWeek(k))>>
    ELSE IF BareKeyMatches(k)
    THEN IF YearIsPrevious(tw, ToInt(k))
         THEN <<ty - 1, ToInt(k)>>
         ELSE <<ty, ToInt(k)>>
    ELSE <<NoneInt, NoneInt>>

----------------------------------------------------------------------------
(* summarize.last_non_null                                                 *)

\* the `parsed` list before sorting: (y_effective, w, raw) of every parsable key
Parsed(st, ty, tw) ==
    LET Item(k) ==
            LET pk == summarize_parse_stopper_key(k)
            IN  <<EffectiveYear(pk[1], pk[2], ty, tw), pk[2], k>>
    IN  {t \in {Item(k) : k \in DOMAIN st} : t[2] # NoneInt}

\* entries strictly before the target
IsBeforeMut(t, ty, tw) == ~WeekLess(ty, tw, t[1], t[2])
IsBefore(t, ty, tw) == WeekLess(t[1], t[2], ty, tw)

Candidates(st, ty, tw) ==
    LET sorted == SortTuples(Parsed(st, ty, tw))
        Test(t) == IsBefore(t, ty, tw)
    IN  SelectSeq(sorted, Test)

\* val not in (None, "", "None")
IsValueMut(val) == val \notin {Null, ""}
IsValue(val) == val \notin {Null, "", "None"}

\* for ... in reversed(candidates): index of the first hit, 0 if none
RECURSIVE ScanReversed(_, _, _, _)
ScanReversed(st, cands, i, key) ==
    IF i = 0 THEN 0
    ELSE IF IsValue(Get(st[cands[i][3]], key)) THEN i
    ELSE ScanReversed(st, cands, i - 1, key)

\* the store key last_non_null reads its result from, NoKey if it returns None
last_non_null_from(st, ty, tw, key) ==
    LET cands == Candidates(st, ty, tw)
        hit   == ScanReversed(st, cands, Len(cands), key)
    IN  IF hit = 0 THEN NoKey ELSE cands[hit][3]

last_non_null(st, ty, tw, key) ==
    LET raw == last_non_null_from(st, ty, tw, key)
    IN  IF raw = NoKey THEN Null ELSE Get(st[raw], key)

----------------------------------------------------------------------------
(* Snapshot store inputs                                                   *)

MaxStopperEntries == 3

\* extract.py's canonical key f"{target_year}-W{target_week:02d}"
week_str(y, w) == Str(y) \o <<"-", "W">> \o Pad2(w)

\* a key as older runs wrote it (str(week)) or as extract.py writes it now
KeyOf(p) ==
    CASE p.form = "bare" -> Str(p.w)
      [] p.form = "iso"  -> week_str(p.y, p.w)
      [] p.form = "dash" -> Str(p.y) \o <<"-">> \o Pad2(p.w)
      [] OTHER           -> <<"W">> \o Pad2(p.w)

KeyParts ==
    {[form |-> "bare", y |-> 0, w |-> 45],
     [form |-> "bare", y |-> 0, w |-> 40],
     [form |-> "iso",  y |-> 2025, w |-> 46],
     [form |-> "iso",  y |-> 2025, w |-> 47],
     [form |-> "dash", y |-> 2025, w |-> 46],
     [form |-> "week", y |-> 0, w |-> 47]}

StopperKeys == {KeyOf(p) : p \in KeyParts}

StoredVals == {Null, "", "None", "1.0.0", "1.1.0"}

EntryWith(v) == [f \in Families |-> IF f = "APIM" THEN v ELSE Null]

StoredEntries == {EntryWith(v) : v \in StoredVals}

Targets == {<<2025, 48>>, <<2025, 46>>, <<2026, 5>>}

QueryFamilies == {"APIM", "EAH"}

IdleStore ==
    /\ lookup_family = ""
    /\ lookup_result = Null
    /\ lookup_from = NoKey
    /\ parsed = {}
    /\ gaps_parsed = {}

IdlePersist ==
    /\ store_entry = NoEntry
    /\ force_overwrite = FALSE
    /\ existing = NoEntry
    /\ has_changed = FALSE
    /\ saved = FALSE
    /\ runs = 0

IdleWeek ==
    /\ argv_week = <<>>
    /\ arg_parts = [y |-> 0, letter |-> "", w |-> 0]
    /\ today = <<2026, 2, 4>>
    /\ override_year = NoneInt
    /\ override_week = NoneInt
    /\ pc = "idle"
    /\ exit_code = NoneInt
    /\ fetched = FALSE
    /\ report_written = FALSE
    /\ snapshot_written = FALSE

Enablers == Families \ {"APIM", "EAH"}

IdleDisc ==
    /\ issue_key = 0
    /\ summary = <<>>
    /\ issuetype = ""
    /\ records = <<>>
    /\ candidate_keys = [f \in Enablers |-> <<>>]

\* a helper that has not been called yet
Pending == "pending"

IdleHist ==
    /\ histories = <<>>
    /\ prod_date = Pending
    /\ deploying_date = Pending
    /\ awaiting_date = Pending

IdleSel ==
    /\ sel_cand = NoEntry
    /\ sel_before = ""
    /\ sel_result = NoEntry

IdleRun ==
    /\ run_cands = <<>>
    /\ run_pos = 0
    /\ run_pc = "idle"
    /\ run_summary_full = ""
    /\ run_enablers = <<>>
    /\ run_report = ""
    /\ run_entry = NoEntry
    /\ run_total = NoneInt
    /\ run_blocks = <<>>

IdleFile ==
    /\ file_exists = FALSE
    /\ file_text = <<>>
    /\ wr_pc = "idle"
    /\ wr_old = <<>>
    /\ wr_data = <<>>
    /\ wr_pending = <<>>
    /\ rd_stage = "none"
    /\ rd_text = <<>>
    /\ rd_store = <<>>
    /\ rd_raised = FALSE

IdleParse ==
    /\ parse_raw = ""
    /\ parse_pc = "idle"
    /\ parse_out = <<>>
    /\ parse_pv = <<>>
    /\ parse_raised = FALSE

IdleFlow ==
    /\ flow_arg = Null
    /\ flow_gaps_out = NoEntry
    /\ flow_weeks = <<>>
    /\ flow_i = 0
    /\ flow_pc = "idle"
    /\ flow_log = <<>>
    /\ flow_urls = <<>>
    /\ flow_response = NoEntry

IdleRcz ==
    /\ rcz_date = Pending

IdleGaps ==
    /\ gaps_today = <<>>
    /\ gaps_argv = <<>>
    /\ gaps_env = ""
    /\ gaps_pages = {}
    /\ gaps_pc = "idle"
    /\ gaps_weeks = <<>>
    /\ gaps_list = <<>>
    /\ gaps_exit = NoneInt

IdlePub ==
    /\ pub_week = ""
    /\ pub_html = FALSE
    /\ pub_existed = FALSE
    /\ pub_exists = FALSE
    /\ pub_pc = "idle"
    /\ pub_first = FALSE
    /\ pub_page_id = Null
    /\ pub_log = <<>>
    /\ pub_done = "nothing"
    /\ pub_notified = FALSE
    /\ pub_exit = NoneInt

IdleId ==
    /\ id_argv = <<>>
    /\ id_today = <<2026, 2, 4>>
    /\ id_pc = "idle"
    /\ id_week_str = Null
    /\ id_display = Null
    /\ id_week_file = Null
    /\ id_title_week = Null
    /\ id_exit = NoneInt

InitStore ==
    /\ stopper \in UNION {[K -> StoredEntries] :
            K \in {K \in SUBSET StopperKeys : Cardinality(K) <= MaxStopperEntries}}
    /\ \E t \in Targets : target_year = t[1] /\ target_week = t[2]
    /\ IdleStore
    /\ IdlePersist
    /\ IdleWeek
    /\ IdleDisc
    /\ IdleHist
    /\ IdleSel
    /\ IdleRun
    /\ IdleFile
    /\ IdleParse
    /\ IdleFlow
    /\ IdleRcz
    /\ IdleGaps
    /\ IdlePub
    /\ IdleId

\* summarize.py: one call of last_non_null
SummarizeLookback ==
    /\ lookup_family = ""
    /\ \E fam \in QueryFamilies :
        LET raw == last_non_null_from(stopper, target_year, target_week, fam)
        IN  /\ lookup_family' = fam
            /\ lookup_from' = raw
            /\ lookup_result' = IF raw = NoKey THEN Null ELSE Get(stopper[raw], fam)
    /\ parsed' = Parsed(stopper, target_year, target_week)
    /\ UNCHANGED <<baseVars, gaps_parsed, outsideStore>>

\* check_gaps.main: parse_stopper_key of every key of the store
CheckGapsParse ==
    /\ gaps_parsed = {}
    /\ DOMAIN stopper # {}
    /\ gaps_parsed' =
          {LET pk == check_gaps_parse_stopper_key(k, target_year, target_week)
           IN  <<pk[1], pk[2], k>> : k \in DOMAIN stopper}
    /\ UNCHANGED <<baseVars, lookup_family, lookup_result, lookup_from,
                   parsed, outsideStore>>

NextStore == SummarizeLookback \/ CheckGapsParse

SpecStore == InitStore /\ [][NextStore]_vars

----------------------------------------------------------------------------
(* Snapshot lookback: claims C1 - C3                                       *)

\* the (year, week) a key stands for, stated on the parts the key was built from
KeyHasWeek(p) == p.form \in {"bare", "iso", "dash"}

KeyYear(p) ==
    IF p.form = "bare"
    THEN IF target_week <= 10 /\ p.w > 40 THEN target_year - 1 ELSE target_year
    ELSE p.y

StoredParts == {p \in KeyParts : KeyOf(p) \in DOMAIN stopper}

Holds(p, fam) == Get(stopper[KeyOf(p)], fam) \notin {Null, "", "None"}

StrictlyBefore(p) ==
    KeyHasWeek(p) /\ WeekLess(KeyYear(p), p.w, target_year, target_week)

\* C1: last_non_null never returns a value read from an entry whose normalised
\* (year, week) is the target week or later, and it returns None when no entry
\* strictly before the target holds a value for the family.
C1_LookbackStrictlyBefore ==
    lookup_family # "" =>
        /\ lookup_from # NoKey =>
              \E p \in StoredParts :
                  /\ KeyOf(p) = lookup_from
                  /\ StrictlyBefore(p)
                  /\ lookup_result = Get(stopper[lookup_from], lookup_family)
        /\ lookup_from = NoKey => lookup_result = Null
        /\ (\A p \in StoredParts : StrictlyBefore(p) => ~Holds(p, lookup_family))
              => lookup_result = Null /\ lookup_from = NoKey

\* a lookup that returned a value although the target week itself, or a later
\* week, also holds one
C1_Witness ==
    /\ lookup_family = "APIM"
    /\ lookup_result = "1.0.0"
    /\ \E p \in StoredParts :
          KeyHasWeek(p) /\ ~StrictlyBefore(p) /\ Holds(p, "APIM")

\* C2: last_non_null returns the family value of the chronologically latest
\* entry strictly before the target whose value is not null, not "" and not
\* "None"; on {"45": 1.0.0, "2025-W46": null, "2025-W47": 1.1.0} the query at
\* (2025, 48) returns 1.1.0 and the query at (2025, 46) returns 1.0.0.
ExampleStore ==
    (Str(45) :> EntryWith("1.0.0"))
        @@ (KeyOf([form |-> "iso", y |-> 2025, w |-> 46]) :> EntryWith(Null))
        @@ (KeyOf([form |-> "iso", y |-> 2025, w |-> 47]) :> EntryWith("1.1.0"))

C2_LookbackLatestValue ==
    lookup_family # "" =>
        LET Q == {p \in StoredParts : StrictlyBefore(p) /\ Holds(p, lookup_family)}
        IN  /\ Q = {} => lookup_result = Null
            /\ Q # {} =>
                  \E p \in Q :
                      /\ lookup_from = KeyOf(p)
                      /\ lookup_result = stopper[KeyOf(p)][lookup_family]
                      /\ \A q \in Q : ~WeekLess(KeyYear(p), p.w, KeyYear(q), q.w)
            /\ (stopper = ExampleStore /\ lookup_family = "APIM"
                    /\ target_year = 2025 /\ target_week = 48)
                  => lookup_result = "1.1.0"
            /\ (stopper = ExampleStore /\ lookup_family = "APIM"
                    /\ target_year = 2025 /\ target_week = 46)
                  => lookup_result = "1.0.0"

\* the query at (2025, 46) on the example store has skipped nothing but found
\* the bare key "45"; a later entry holding "None" was skipped elsewhere
C2_Witness ==
    /\ lookup_family = "APIM"
    /\ lookup_result = "1.0.0"
    /\ lookup_from = Str(45)
    /\ \E p \in StoredParts :
          /\ StrictlyBefore(p)
          /\ WeekLess(target_year, 45, KeyYear(p), p.w)
          /\ Get(stopper[KeyOf(p)], "APIM") = "None"

\* C3: a bare-number key w is placed in year Y-1 exactly when the target week
\* is <= 10 and w > 40, and in the target year otherwise; YYYY-Wnn keys keep
\* their own year; last_non_null and check_gaps.parse_stopper_key both do so.
C3_BareKeyYearRule ==
    \A p \in StoredParts :
        /\ lookup_family # "" =>
              IF KeyHasWeek(p)
              THEN /\ <<KeyYear(p), p.w, KeyOf(p)>> \in parsed
                   /\ \A t \in parsed : t[3] = KeyOf(p) => t[1] = KeyYear(p)
              ELSE \A t \in parsed : t[3] # KeyOf(p)
        /\ gaps_parsed # {} =>
              IF KeyHasWeek(p)
              THEN /\ <<KeyYear(p), p.w, KeyOf(p)>> \in gaps_parsed
                   /\ \A t \in gaps_parsed : t[3] = KeyOf(p) => t[1] = KeyYear(p)
              ELSE <<NoneInt, NoneInt, KeyOf(p)>> \in gaps_parsed

\* both programs have normalised a store holding the bare key "45" for a
\* target week <= 10 and placed it in the previous year
C3_Witness ==
    /\ target_week <= 10
    /\ <<target_year - 1, 45, Str(45)>> \in parsed
    /\ <<target_year - 1, 45, Str(45)>> \in gaps_parsed
    /\ <<target_year, 40, Str(40)>> \in parsed
    /\ <<2025, 46, KeyOf([form |-> "iso", y |-> 2025, w |-> 46])>> \in gaps_parsed

----------------------------------------------------------------------------
(* extract.py: persisting the week's snapshot entry                        *)

\* Python truthiness of a stored value
Truthy(v) == v \notin {Null, ""}

DataHasChangedWholeDict(existing_data, new_data) ==
    existing_data = NoEntry \/ existing_data # new_data

DataHasChangedNewOnly(existing_data, new_data) ==
    \/ existing_data = NoEntry
    \/ \E component \in DOMAIN new_data :
          /\ new_data[component] # Get(existing_data, component)
          /\ Truthy(new_data[component]) /\ new_data[component] # "None"

data_has_changed(existing_data, new_data) ==
    \/ existing_data = NoEntry
    \/ \E component \in DOMAIN new_data :
          LET new_version      == new_data[component]
              existing_version == Get(existing_data, component)
          IN  /\ new_version # existing_version
              /\ \/ Truthy(new_version) /\ new_version # "None"
                 \/ /\ Truthy(existing_version)
                    /\ existing_version # "None"
                    /\ ~Truthy(new_version)

\* should_update of lines 2484-2495
ShouldUpdate(force, existing_data, new_data) ==
    IF force THEN TRUE
    ELSE IF existing_data # NoEntry THEN data_has_changed(existing_data, new_data)
    ELSE TRUE

MaxRuns == 2

\* an entry of the fixed shape with the given APIM and VDR fields
Entry(a, v) ==
    [f \in Families |-> IF f = "APIM" THEN a ELSE IF f = "VDR" THEN v ELSE Null]

\* what a run can compute: null or a joined version list per family
NewEntries == {Entry(a, v) : a \in {Null, "1.0.0", "1.0.0,1.1.0"}, v \in {Null, "2.0.0"}}

\* what the document can hold: entries of earlier runs, hand edits, and an
\* entry written before the later families were added
OldEntries ==
    {Entry(a, v) : a \in {Null, "", "None", "1.0.0", "1.0.0,1.1.0"},
                   v \in {Null, "2.0.0"}}
        \cup {[f \in {"APIM", "EAH"} |-> IF f = "APIM" THEN "1.0.0" ELSE Null]}

PersistWeeks == {<<2026, 6>>, <<2026, 7>>}

InitPersist ==
    /\ stopper \in {<<>>} \cup {(week_str(2026, 6) :> e) : e \in OldEntries}
    /\ target_year = 2026
    /\ target_week = 6
    /\ IdleStore
    /\ IdlePersist
    /\ IdleWeek
    /\ IdleDisc
    /\ IdleHist
    /\ IdleSel
    /\ IdleRun
    /\ IdleFile
    /\ IdleParse
    /\ IdleFlow
    /\ IdleRcz
    /\ IdleGaps
    /\ IdlePub
    /\ IdleId

\* one extraction run, from the computed store_entry to the end of the
\* persist step (lines 2465-2503)
PersistStopper ==
    /\ runs < MaxRuns
    /\ \E t \in PersistWeeks, new \in NewEntries, force \in BOOLEAN :
        LET key == week_str(t[1], t[2])
            old == IF key \in DOMAIN stopper THEN stopper[key] ELSE NoEntry
            should_update == ShouldUpdate(force, old, new)
        IN  /\ target_year' = t[1]
            /\ target_week' = t[2]
            /\ store_entry' = new
            /\ force_overwrite' = force
            /\ existing' = old
            /\ has_changed' = data_has_changed(old, new)
            /\ saved' = should_update
            /\ stopper' = IF should_update
                          THEN [k \in DOMAIN stopper \cup {key} |->
                                   IF k = key THEN new ELSE stopper[k]]
                          ELSE stopper
    /\ runs' = runs + 1
    /\ UNCHANGED outsidePersist

NextPersist == PersistStopper

SpecPersist == InitPersist /\ [][NextPersist]_vars

----------------------------------------------------------------------------
(* Snapshot persistence: claims C4 - C5                                    *)

SameContent(old, new) ==
    old # NoEntry /\ \A f \in Families : Get(old, f) = new[f]

\* C4: a run whose newly computed entry has the same content as the entry
\* stored under the week key performs no write and leaves the document
\* unchanged, so a rerun with unchanged inputs writes nothing; with --force
\* the entry is written regardless.
C4_UnchangedEntryNotWritten ==
    [][runs' = runs + 1 =>
        LET key == week_str(target_year', target_week')
            old == IF key \in DOMAIN stopper THEN stopper[key] ELSE NoEntry
        IN  /\ (~force_overwrite' /\ SameContent(old, store_entry'))
                  => (~saved' /\ stopper' = stopper)
            /\ (~force_overwrite' /\ runs >= 1 /\ store_entry' = store_entry
                    /\ target_year' = target_year /\ target_week' = target_week)
                  => (~saved' /\ stopper' = stopper)
            /\ force_overwrite'
                  => (saved' /\ stopper'[key] = store_entry')
    ]_vars

\* a rerun found the entry written by the run before it and wrote nothing
C4_Witness ==
    /\ runs = 2
    /\ ~force_overwrite
    /\ ~saved
    /\ SameContent(existing, store_entry)
    /\ store_entry["APIM"] = "1.0.0,1.1.0"
    /\ stopper[week_str(target_year, target_week)] = store_entry

Empty(v) == v \in {Null, "", "None"}

\* C5: data_has_changed(existing, new) is true exactly when no entry exists
\* yet or some family goes from null/empty to non-empty, from non-empty to
\* null/empty, or from one non-empty value to a different one.
C5_DataHasChangedRule ==
    runs >= 1 =>
        (has_changed <=>
            \/ existing = NoEntry
            \/ \E f \in Families :
                  LET o == Get(existing, f)
                      n == store_entry[f]
                  IN  \/ Empty(o) /\ ~Empty(n)
                      \/ ~Empty(o) /\ Empty(n)
                      \/ ~Empty(o) /\ ~Empty(n) /\ o # n)

\* a run whose only difference is a family that went from a version to null
C5_Witness ==
    /\ runs >= 1
    /\ existing # NoEntry
    /\ has_changed
    /\ Get(existing, "APIM") = "1.0.0" /\ store_entry["APIM"] = Null
    /\ Get(existing, "VDR") = store_entry["VDR"]

----------------------------------------------------------------------------
(* Calendar: datetime.date.isocalendar and weeks_in_year                   *)

IsLeap(y) == y % 4 = 0 /\ (y % 100 # 0 \/ y % 400 = 0)

\* number of days before January 1st of year y
DaysBeforeYear(y) ==
    (y - 1) * 365 + (y - 1) \div 4 - (y - 1) \div 100 + (y - 1) \div 400

DaysInMonth(y, m) ==
    IF m = 2 THEN (IF IsLeap(y) THEN 29 ELSE 28)
    ELSE IF m \in {4, 6, 9, 11} THEN 30 ELSE 31

RECURSIVE DaysBeforeMonth(_, _)
DaysBeforeMonth(y, m) ==
    IF m = 1 THEN 0 ELSE DaysBeforeMonth(y, m - 1) + DaysInMonth(y, m - 1)

\* date.toordinal(): 1 is 0001-01-01, a Monday
ToOrdinal(d) == DaysBeforeYear(d[1]) + DaysBeforeMonth(d[1], d[2]) + d[3]

\* ordinal of the Monday of ISO week 1 of year y
IsoWeek1Monday(y) ==
    LET firstday     == ToOrdinal(<<y, 1, 1>>)
        firstweekday == (firstday + 6) % 7
        week1monday  == firstday - firstweekday
    IN  IF firstweekday > 3 THEN week1monday + 7 ELSE week1monday

\* date.isocalendar() as <<ISO year, ISO week>>
Isocalendar(d) ==
    LET ord  == ToOrdinal(d)
        week == (ord - IsoWeek1Monday(d[1])) \div 7
    IN  IF week < 0
        THEN <<d[1] - 1, (ord - IsoWeek1Monday(d[1] - 1)) \div 7 + 1>>
        ELSE IF week >= 52 /\ ord >= IsoWeek1Monday(d[1] + 1)
        THEN <<d[1] + 1, 1>>
        ELSE <<d[1], week + 1>>

weeks_in_year(year) == Isocalendar(<<year, 12, 28>>)[2]

----------------------------------------------------------------------------
(* The --week argument: parse_week_arg (extract.py, summarize.py)          *)

NoArg == <<"-">>

\* str.strip() for the blank
RECURSIVE Strip(_)
Strip(s) ==
    IF s = <<>> THEN s
    ELSE IF Head(s) = " " THEN Strip(Tail(s))
    ELSE IF s[Len(s)] = " " THEN Strip(SubSeq(s, 1, Len(s) - 1))
    ELSE s

\* [-_ ]* : the text after the leading separators
RECURSIVE DropSeparators(_)
DropSeparators(s) ==
    IF s # <<>> /\ Head(s) \in {"-", "_", " "} THEN DropSeparators(Tail(s)) ELSE s

\* W? compiled without re.IGNORECASE
WeekLetter(c) == c = "W"

\* W?(?P<week>\d{1,2})$ : the digits of the week group, or <<>>
WeekGroup(s) ==
    LET wk == IF s # <<>> /\ WeekLetter(Head(s)) THEN Tail(s) ELSE s
    IN  IF Len(wk) \in {1, 2} /\ IsDigits(wk) THEN wk ELSE <<>>

\* parse_week_arg: <<year or NoneInt, week or NoneInt>>
parse_week_arg(raw0) ==
    LET raw == Strip(raw0)
    IN  IF raw = <<>> THEN <<NoneInt, NoneInt>>
        ELSE IF /\ Len(raw) >= 5
                /\ IsDigits(SubSeq(raw, 1, 4))
                /\ WeekGroup(DropSeparators(SubSeq(raw, 5, Len(raw)))) # <<>>
        THEN <<ToInt(SubSeq(raw, 1, 4)),
               ToInt(WeekGroup(DropSeparators(SubSeq(raw, 5, Len(raw)))))>>
        ELSE IF WeekGroup(raw) # <<>>
        THEN <<NoneInt, ToInt(WeekGroup(raw))>>
        ELSE <<NoneInt, NoneInt>>

\* `x if x else y` on an optional integer
OrElse(x, y) == IF x # NoneInt /\ x # 0 THEN x ELSE y

----------------------------------------------------------------------------
(* extract.py as a process: arguments, validation, fetch, report, snapshot *)

\* the text of a --week argument: [YYYY-][W|w]NN
ArgText(p) ==
    (IF p.y = 0 THEN <<>> ELSE Str(p.y) \o <<"-">>)
        \o (IF p.letter = "" THEN <<>> ELSE <<p.letter>>)
        \o Pad2(p.w)

ArgParts ==
    [y : {0, 2025, 2026}, letter : {"", "W", "w"}, w : {0, 6, 52, 53, 54}]

Todays == {<<2026, 2, 4>>, <<2025, 12, 29>>, <<2027, 1, 1>>}

InitWeek ==
    /\ \/ \E p \in ArgParts : arg_parts = p /\ argv_week = ArgText(p)
       \/ arg_parts = [y |-> 0, letter |-> "", w |-> 0] /\ argv_week = NoArg
    /\ today \in Todays
    /\ override_year = NoneInt
    /\ override_week = NoneInt
    /\ pc = "args"
    /\ exit_code = NoneInt
    /\ fetched = FALSE
    /\ report_written = FALSE
    /\ snapshot_written = FALSE
    /\ stopper = <<>>
    /\ target_year = 0
    /\ target_week = 0
    /\ IdleStore
    /\ IdlePersist
    /\ IdleDisc
    /\ IdleHist
    /\ IdleSel
    /\ IdleRun
    /\ IdleFile
    /\ IdleParse
    /\ IdleFlow
    /\ IdleRcz
    /\ IdleGaps
    /\ IdlePub
    /\ IdleId

\* lines 90-111: parse --week, derive the target week, validate it
ExtractStartup ==
    /\ pc = "args"
    /\ LET yw == IF argv_week = NoArg THEN <<NoneInt, NoneInt>>
                 ELSE parse_week_arg(argv_week)
           ty == OrElse(yw[1], Isocalendar(today)[1])
           tw == OrElse(yw[2], Isocalendar(today)[2])
       IN  /\ override_year' = yw[1]
           /\ override_week' = yw[2]
           /\ target_year' = ty
           /\ target_week' = tw
           /\ IF tw < 1 \/ tw > weeks_in_year(ty)
              THEN pc' = "exited" /\ exit_code' = 1
              ELSE pc' = "validated" /\ exit_code' = exit_code
    /\ UNCHANGED <<stopper, argv_week, arg_parts, today, fetched,
                   report_written, snapshot_written, outsideWeek>>

\* lines 380-382: load the store and fetch the board; a failed board fetch exits
ExtractFetch ==
    /\ pc = "validated"
    /\ fetched' = TRUE
    /\ \/ pc' = "selected" /\ exit_code' = exit_code
       \/ pc' = "exited" /\ exit_code' = 1
    /\ UNCHANGED <<baseVars, argv_week, arg_parts, today, override_year,
                   override_week, report_written, snapshot_written, outsideWeek>>

\* lines 2230-2233: write the report
ExtractWriteReport ==
    /\ pc = "selected"
    /\ report_written' = TRUE
    /\ pc' = "reported"
    /\ UNCHANGED <<baseVars, argv_week, arg_parts, today, override_year,
                   override_week, exit_code, fetched, snapshot_written,
                   outsideWeek>>

\* lines 2465-2503 and the end of the script: persist step, exit status 0
ExtractPersist ==
    /\ pc = "reported"
    /\ snapshot_written' = TRUE
    /\ pc' = "exited"
    /\ exit_code' = 0
    /\ UNCHANGED <<baseVars, argv_week, arg_parts, today, override_year,
                   override_week, fetched, report_written, outsideWeek>>

NextWeek == ExtractStartup \/ ExtractFetch \/ ExtractWriteReport \/ ExtractPersist

SpecWeek == InitWeek /\ [][NextWeek]_vars

----------------------------------------------------------------------------
(* The --week argument: claims C6 - C7                                     *)

\* the year the argument's week number is to be valid for
ArgTargetYear == IF arg_parts.y = 0 THEN Isocalendar(today)[1] ELSE arg_parts.y

\* C6: a --week argument whose week number is 0 or greater than
\* weeks_in_year(target year) is rejected: extract.py exits with an error and
\* performs no fetch, no report write and no snapshot write.  Stated for the
\* arguments written with "W" or without a letter.
C6_InvalidWeekRejected ==
    (argv_week # NoArg /\ pc # "args" /\ arg_parts.letter # "w"
        /\ (arg_parts.w = 0 \/ arg_parts.w > weeks_in_year(ArgTargetYear)))
    => (pc = "exited" /\ exit_code = 1
        /\ ~fetched /\ ~report_written /\ ~snapshot_written)

\* C7: parse_week_arg accepts NN, WNN, YYYY-NN and YYYY-WNN with the letter W
\* in either case and returns (None, week) for the year-less forms and
\* (year, week) for the others.
C7_WeekArgCaseInsensitive ==
    (argv_week # NoArg /\ pc # "args") =>
        /\ override_week = arg_parts.w
        /\ override_year = (IF arg_parts.y = 0 THEN NoneInt ELSE arg_parts.y)

----------------------------------------------------------------------------
(* extract.py: discovery of candidates from the board (lines 402-480)      *)
(* A summary is a sequence of tokens; the family literals are written with *)
(* the same tokens, so str.startswith and the `in` test are comparisons of *)
(* token sequences.                                                        *)

StartsWith(s, p) == Len(s) >= Len(p) /\ SubSeq(s, 1, Len(p)) = p

\* p in s
Contains(s, p) ==
    \E i \in 1..(Len(s) - Len(p) + 1) : SubSeq(s, i, i + Len(p) - 1) = p

VersionTokens == {"1.2.3", "2.0.0"}

\* re.IGNORECASE on the family token
UpperToken(t) == IF t = "apim" THEN "APIM" ELSE IF t = "eah" THEN "EAH" ELSE t

\* index of the first token at or after i that is not matched by [-\s]
RECURSIVE SkipDashSpace(_, _)
SkipDashSpace(s, i) ==
    IF i <= Len(s) /\ s[i] \in {"-", " "} THEN SkipDashSpace(s, i + 1) ELSE i

\* NAME[-\s]*([0-9]+\.[0-9]+\.[0-9]+) matched at token i: the version, or ""
VersionAt(s, i, name) ==
    IF UpperToken(s[i]) = name
    THEN LET j == SkipDashSpace(s, i + 1)
         IN  IF j <= Len(s) /\ s[j] \in VersionTokens THEN s[j] ELSE ""
    ELSE ""

\* RE.search(summary): group(1) of the leftmost match, "" if there is none
RegexSearch(s, name) ==
    LET hits == {i \in 1..Len(s) : VersionAt(s, i, name) # ""}
    IN  IF hits = {} THEN ""
        ELSE VersionAt(s, CHOOSE i \in hits : \A j \in hits : i <= j, name)

\* sys_ver of lines 411-418: <<system, version>>, <<>> for None
SysVer(s) ==
    IF RegexSearch(s, "APIM") # "" THEN <<"APIM", RegexSearch(s, "APIM")>>
    ELSE IF RegexSearch(s, "EAH") # "" THEN <<"EAH", RegexSearch(s, "EAH")>>
    ELSE <<>>

enabler_issue_types == {"Enabler Version - IOT PF", "Improve Enabler Version - IOT PF"}

VDP_DS == <<"VDP", "_", "DS">>
VDP_DS_SSDP == <<"VDP", "_", "DS", "_", "SSDP">>
VDP_DS_MON == <<"VDP", "_", "DS", "_", "MON">>
VDP_DS_SSDP_Spaced == <<"VDP", " ", "DS", " ", "SSDP">>
VDP_DS_MON_Spaced == <<"VDP", " ", "DS", " ", "MON">>
VDP_STORE == <<"VDP", "_", "STORE">>
VDP_STORE_Spaced == <<"VDP", " ", "STORE">>
VDP_STORE_2 == <<"VDP", "_", "STORE", "_", "2">>
VDP_STORE_2_Spaced == <<"VDP", " ", "STORE", " ", "2">>
VDP_STORE_2_Mixed == <<"VDP", " ", "STORE", "_", "2">>

\* the prefix tested by the single-prefix families (lines 436-461)
PrefixOf(fam) ==
    CASE fam = "DOCG"        -> <<"DOCG">>
      [] fam = "VDR"         -> <<"VDR">>
      [] fam = "PATRIC-SSDP" -> <<"PATRIC", "-", "SSDP", "-">>
      [] fam = "RCZ"         -> <<"SSDP", " ", "RCZ">>
      [] fam = "SYNAPSE"     -> <<"SYNAPSE">>
      [] fam = "REFTEL"      -> <<"REFTEL">>
      [] fam = "CALVA"       -> <<"CALVA">>
      [] fam = "REFSER2"     -> <<"REFSER2">>
      [] fam = "SERING"      -> <<"SERING">>

\* lines 466-474: which VDP_DS list the issue is appended to, "" for none
VdpDsListBaseFirst(s) ==
    IF StartsWith(s, VDP_DS) THEN "VDP_DS" ELSE ""

VdpDsList(s) ==
    IF StartsWith(s, VDP_DS)
    THEN IF Contains(s, VDP_DS_SSDP) \/ Contains(s, VDP_DS_SSDP_Spaced)
         THEN "VDP_DS_SSDP"
         ELSE IF Contains(s, VDP_DS_MON) \/ Contains(s, VDP_DS_MON_Spaced)
         THEN "VDP_DS_MON"
         ELSE "VDP_DS"
    ELSE ""

\* lines 476-480: which VDP_STORE list the issue is appended to, "" for none
VdpStoreListShortFirst(s) ==
    IF StartsWith(s, VDP_STORE) \/ StartsWith(s, VDP_STORE_Spaced)
    THEN "VDP_STORE"
    ELSE ""

VdpStoreList(s) ==
    IF \/ StartsWith(s, VDP_STORE_2)
       \/ StartsWith(s, VDP_STORE_2_Spaced)
       \/ StartsWith(s, VDP_STORE_2_Mixed)
    THEN "VDP_STORE_2"
    ELSE IF StartsWith(s, VDP_STORE) \/ StartsWith(s, VDP_STORE_Spaced)
    THEN "VDP_STORE"
    ELSE ""

\* whether the loop body appends the issue to the candidate list of fam
IsCandidate(fam, s, type) ==
    /\ type \in enabler_issue_types
    /\ CASE fam = "VDP_PROC" ->
                StartsWith(s, <<"VDP", "_", "PROC">>) \/ StartsWith(s, <<"VDP", " ", "PROC">>)
         [] fam \in {"VDP_DS", "VDP_DS_SSDP", "VDP_DS_MON"} -> VdpDsList(s) = fam
         [] fam \in {"VDP_STORE", "VDP_STORE_2"} -> VdpStoreList(s) = fam
         [] OTHER -> StartsWith(s, PrefixOf(fam))

MaxIssues == 2

SummaryHeads ==
    {PrefixOf(f) : f \in {"DOCG", "VDR", "PATRIC-SSDP", "RCZ", "SYNAPSE", "REFTEL",
                          "CALVA", "REFSER2", "SERING"}}
        \cup {<<"VDP", "_", "PROC">>, <<"VDP", " ", "PROC">>, VDP_DS, VDP_DS_SSDP,
              VDP_DS_MON, VDP_DS_SSDP_Spaced, VDP_STORE, VDP_STORE_Spaced,
              VDP_STORE_2, VDP_STORE_2_Spaced, VDP_STORE_2_Mixed,
              <<"APIM">>, <<"apim">>, <<"EAH">>, <<"Fix">>}

SummaryTails ==
    {<<" ", "1.2.3">>, <<" ", "for", " ", "APIM", "-", "1.2.3">>,
     <<" ", "VDP", "_", "DS", "_", "MON">>, <<" ", "VDP", "_", "DS", "_", "SSDP">>}

\* the board issues offered to the loop: <<summary, issue type name>>
BoardIssues ==
    {<<h \o t, type>> : h \in SummaryHeads, t \in SummaryTails,
                        type \in {"Enabler Version - IOT PF", "Story"}}
        \cup {<<h \o <<" ", "2.0.0">>, "Improve Enabler Version - IOT PF">> :
                h \in {<<"DOCG">>, VDP_DS_SSDP, VDP_STORE_2}}

InitDisc ==
    /\ IdleDisc
    /\ stopper = <<>>
    /\ target_year = 2026
    /\ target_week = 6
    /\ IdleStore
    /\ IdlePersist
    /\ IdleWeek
    /\ IdleHist
    /\ IdleSel
    /\ IdleRun
    /\ IdleFile
    /\ IdleParse
    /\ IdleFlow
    /\ IdleRcz
    /\ IdleGaps
    /\ IdlePub
    /\ IdleId

\* one iteration of `for it in issues` (lines 402-480)
DiscoverIssue ==
    /\ issue_key < MaxIssues
    /\ \E it \in BoardIssues :
        LET s == it[1]
            type == it[2]
            sys_ver == SysVer(s)
        IN  /\ issue_key' = issue_key + 1
            /\ summary' = s
            /\ issuetype' = type
            /\ records' =
                  IF sys_ver # <<>>
                  THEN Append(records, [system |-> sys_ver[1], version |-> sys_ver[2],
                                        key |-> issue_key + 1])
                  ELSE records
            /\ candidate_keys' =
                  [f \in Enablers |->
                      IF IsCandidate(f, s, type)
                      THEN Append(candidate_keys[f], issue_key + 1)
                      ELSE candidate_keys[f]]
    /\ UNCHANGED outsideDisc

NextDisc == DiscoverIssue

SpecDisc == InitDisc /\ [][NextDisc]_vars

----------------------------------------------------------------------------
(* Discovery: claims C8 - C9                                               *)

InList(k, list) == \E i \in 1..Len(list) : list[i] = k

InRecords(k) == \E i \in 1..Len(records) : records[i].key = k

\* the families in whose candidate list issue k is
FamiliesOf(k) ==
    {f \in Enablers : InList(k, candidate_keys[f])}
        \cup {f \in {"APIM", "EAH"} :
                \E i \in 1..Len(records) : records[i].key = k /\ records[i].system = f}

\* C8: during discovery every board issue is placed in the candidate list of
\* at most one family: never in the APIM/EAH records and an enabler list, nor
\* in two enabler lists.
C8_AtMostOneFamily ==
    \A k \in 1..issue_key : Cardinality(FamiliesOf(k)) <= 1

\* C9 as stated: an enabler issue whose summary starts with VDP_STORE_2 is
\* never a VDP_STORE candidate, an issue whose summary names VDP_DS_SSDP or
\* VDP_DS_MON is never a base VDP_DS candidate, and each such issue is in
\* exactly one of those candidate lists.
StoreLists == {"VDP_STORE", "VDP_STORE_2"}
DsLists == {"VDP_DS", "VDP_DS_SSDP", "VDP_DS_MON"}

StartsWithStore2 ==
    issuetype \in enabler_issue_types /\ StartsWith(summary, VDP_STORE_2)

NamesDsVariant == Contains(summary, VDP_DS_SSDP) \/ Contains(summary, VDP_DS_MON)

C9_AsStated ==
    issue_key >= 1 =>
        /\ StartsWithStore2 =>
              /\ "VDP_STORE" \notin FamiliesOf(issue_key)
              /\ Cardinality(FamiliesOf(issue_key) \cap StoreLists) = 1
        /\ NamesDsVariant =>
              /\ "VDP_DS" \notin FamiliesOf(issue_key)
              /\ Cardinality(FamiliesOf(issue_key) \cap DsLists) = 1

\* C9: longer prefixes are tested first: an enabler issue whose summary
\* starts with VDP_STORE_2 is in the VDP_STORE_2 list only; an issue whose
\* summary names VDP_DS_SSDP or VDP_DS_MON is never a base VDP_DS candidate
\* and is in at most one of the three VDP_DS lists, in exactly one when it is
\* an enabler-type issue whose summary starts with VDP_DS.
C9_LongerPrefixFirst ==
    issue_key >= 1 =>
        /\ StartsWithStore2 =>
              FamiliesOf(issue_key) \cap StoreLists = {"VDP_STORE_2"}
        /\ NamesDsVariant =>
              /\ "VDP_DS" \notin FamiliesOf(issue_key)
              /\ Cardinality(FamiliesOf(issue_key) \cap DsLists) <= 1
              /\ (issuetype \in enabler_issue_types /\ StartsWith(summary, VDP_DS))
                    => Cardinality(FamiliesOf(issue_key) \cap DsLists) = 1

\* an enabler issue starting with VDP_DS_MON that also names VDP_DS_SSDP went
\* to one variant list, after a VDP_STORE_2 issue went to the VDP_STORE_2 list
C9_Witness ==
    /\ issue_key = 2
    /\ issuetype \in enabler_issue_types
    /\ StartsWith(summary, VDP_DS_MON) /\ Contains(summary, VDP_DS_SSDP)
    /\ FamiliesOf(2) = {"VDP_DS_SSDP"}
    /\ FamiliesOf(1) = {"VDP_STORE_2"}

----------------------------------------------------------------------------
(* extract.py: deploy dates from the changelog (lines 289-328)             *)
(* Status names and timestamps are strings, inspected character by         *)
(* character as the code does.                                             *)

At(s, i) == SubSeq(s, i, i)

\* sub in s
In(sub, s) == \E i \in 1..(Len(s) - Len(sub) + 1) : SubSeq(s, i, i + Len(sub) - 1) = sub

LowerChar(c) ==
    CASE c = "A" -> "a" [] c = "B" -> "b" [] c = "C" -> "c" [] c = "D" -> "d"
      [] c = "E" -> "e" [] c = "F" -> "f" [] c = "G" -> "g" [] c = "H" -> "h"
      [] c = "I" -> "i" [] c = "J" -> "j" [] c = "K" -> "k" [] c = "L" -> "l"
      [] c = "M" -> "m" [] c = "N" -> "n" [] c = "O" -> "o" [] c = "P" -> "p"
      [] c = "Q" -> "q" [] c = "R" -> "r" [] c = "S" -> "s" [] c = "T" -> "t"
      [] c = "U" -> "u" [] c = "V" -> "v" [] c = "W" -> "w" [] c = "X" -> "x"
      [] c = "Y" -> "y" [] c = "Z" -> "z" [] OTHER -> c

\* str.lower()
RECURSIVE Lower(_)
Lower(s) ==
    IF Len(s) = 0 THEN ""
    ELSE LowerChar(At(s, 1)) \o Lower(SubSeq(s, 2, Len(s)))

\* \w on lower-case text
IsWordChar(c) ==
    c \in Digits \cup {"_", "a", "b", "c", "d", "e", "f", "g", "h", "i", "j", "k",
                       "l", "m", "n", "o", "p", "q", "r", "s", "t", "u", "v",
                       "w", "x", "y", "z"}

\* re.search(r"\bprod\b", s)
SearchWordProd(s) ==
    \E i \in 1..(Len(s) - 3) :
        /\ SubSeq(s, i, i + 3) = "prod"
        /\ i = 1 \/ ~IsWordChar(At(s, i - 1))
        /\ i + 3 = Len(s) \/ ~IsWordChar(At(s, i + 4))

\* created.split("T")[0]
SplitT(created) ==
    LET ts == {i \in 1..Len(created) : At(created, i) = "T"}
    IN  IF ts = {} THEN created
        ELSE SubSeq(created, 1, (CHOOSE i \in ts : \A j \in ts : i <= j) - 1)

\* the test each helper applies to a changelog item
IsToProd(item) == item.field = "status" /\ item.toString = "In production"

IsToDeploying(item) ==
    item.field = "status" /\ item.toString \in {"Deploying to PROD", "Deploying To PROD"}

IsToAwaiting(item) ==
    /\ item.field = "status"
    /\ LET to_status_lower == Lower(item.toString)
       IN  /\ In("awaiting", to_status_lower)
           /\ In("go", to_status_lower)
           /\ SearchWordProd(to_status_lower)

\* `for h in histories: for item in h.items: if <test> and created: return`:
\* the date of the first history, in array order, that has a created stamp
\* and a matching item; Null for None
FirstInArray(hs, matching) ==
    LET hits == {i \in 1..Len(hs) : hs[i].created # "" /\ i \in matching}
    IN  IF hits = {} THEN Null
        ELSE SplitT(hs[CHOOSE i \in hits : \A j \in hits : i <= j].created)

\* the histories with an item that passes each helper's test
ToProdEvents(hs) ==
    {i \in 1..Len(hs) : \E j \in 1..Len(hs[i].items) : IsToProd(hs[i].items[j])}

ToDeployingEvents(hs) ==
    {i \in 1..Len(hs) : \E j \in 1..Len(hs[i].items) : IsToDeploying(hs[i].items[j])}

ToAwaitingEvents(hs) ==
    {i \in 1..Len(hs) : \E j \in 1..Len(hs[i].items) : IsToAwaiting(hs[i].items[j])}

get_prod_date_from_history(hs) == FirstInArray(hs, ToProdEvents(hs))

get_deploying_to_prod_date_from_history(hs) == FirstInArray(hs, ToDeployingEvents(hs))

get_awaiting_go_nogo_date_from_history(hs) == FirstInArray(hs, ToAwaitingEvents(hs))

MaxHistories == 2

Createds == {"2026-02-02T09:30:00.000+0100", "2026-02-09T16:45:00.000+0100", ""}

ToStatuses ==
    {"In production", "Deploying to PROD", "Deploying To PROD",
     "Awaiting Go / No go PROD", "Awaiting GO/NOGO PPROD", "In progress"}

StatusItem(to) == [field |-> "status", toString |-> to]

ItemLists ==
    {<<StatusItem(to)>> : to \in ToStatuses}
        \cup {<<[field |-> "resolution", toString |-> "In production"]>>,
              <<[field |-> "assignee", toString |-> "In production"],
                StatusItem("In production")>>}

HistoryEvents == {[created |-> c, items |-> its] : c \in Createds, its \in ItemLists}

Changelogs == UNION {[1..n -> HistoryEvents] : n \in 0..MaxHistories}

InitHist ==
    /\ histories \in Changelogs
    /\ prod_date = Pending
    /\ deploying_date = Pending
    /\ awaiting_date = Pending
    /\ stopper = <<>>
    /\ target_year = 2026
    /\ target_week = 6
    /\ IdleStore
    /\ IdlePersist
    /\ IdleWeek
    /\ IdleDisc
    /\ IdleSel
    /\ IdleRun
    /\ IdleFile
    /\ IdleParse
    /\ IdleFlow
    /\ IdleRcz
    /\ IdleGaps
    /\ IdlePub
    /\ IdleId

GetProdDate ==
    /\ prod_date = Pending
    /\ prod_date' = get_prod_date_from_history(histories)
    /\ UNCHANGED <<histories, deploying_date, awaiting_date, outsideHist>>

GetDeployingToProdDate ==
    /\ deploying_date = Pending
    /\ deploying_date' = get_deploying_to_prod_date_from_history(histories)
    /\ UNCHANGED <<histories, prod_date, awaiting_date, outsideHist>>

GetAwaitingGoNogoDate ==
    /\ awaiting_date = Pending
    /\ awaiting_date' = get_awaiting_go_nogo_date_from_history(histories)
    /\ UNCHANGED <<histories, prod_date, deploying_date, outsideHist>>

NextHist == GetProdDate \/ GetDeployingToProdDate \/ GetAwaitingGoNogoDate

SpecHist == InitHist /\ [][NextHist]_vars

----------------------------------------------------------------------------
(* Deploy dates: claim C10                                                 *)

\* int() of a string of decimal digits
RECURSIVE Num(_)
Num(s) ==
    IF Len(s) = 0 THEN 0
    ELSE 10 * Num(SubSeq(s, 1, Len(s) - 1)) + DigitVal(At(s, Len(s)))

\* minutes of a YYYY-MM-DDThh:mm stamp, increasing with time
Instant(created) ==
    (((Num(SubSeq(created, 1, 4)) * 12 + Num(SubSeq(created, 6, 7))) * 31
        + Num(SubSeq(created, 9, 10))) * 24 + Num(SubSeq(created, 12, 13))) * 60
        + Num(SubSeq(created, 15, 16))

\* the date of the chronologically earliest stamped event with a matching
\* item, Null when there is none
EarliestDate(hs, matching) ==
    LET hits == {i \in matching : hs[i].created # ""}
    IN  IF hits = {} THEN Null
        ELSE LET first == CHOOSE i \in hits :
                            \A j \in hits : Instant(hs[i].created) <= Instant(hs[j].created)
             IN  SubSeq(hs[first].created, 1, 10)

\* C10: the deploy date resolved from history is the date of the
\* chronologically earliest status-change event whose to_status matches the
\* trigger status, whatever the order of the events in the changelog array.
C10_EarliestMatchingEvent ==
    /\ prod_date # Pending => prod_date = EarliestDate(histories, ToProdEvents(histories))
    /\ deploying_date # Pending =>
            deploying_date = EarliestDate(histories, ToDeployingEvents(histories))
    /\ awaiting_date # Pending =>
            awaiting_date = EarliestDate(histories, ToAwaitingEvents(histories))

----------------------------------------------------------------------------
(* extract.py: selection of the candidates of each family (lines 499-1490) *)
(* A fetched issue is a record; `ok` is FALSE when jira_get_issue_full     *)
(* returned {} (timeout, exception or non-200 response).                   *)

NoDate == <<>>

IsDigit(c) == c \in Digits

\* \d{4}-\d{2}-\d{2} at position i of s
IsDateAt(s, i) ==
    /\ i + 9 <= Len(s)
    /\ \A k \in {0, 1, 2, 3, 5, 6, 8, 9} : IsDigit(At(s, i + k))
    /\ At(s, i + 4) = "-"
    /\ At(s, i + 7) = "-"

\* datetime.strptime(text, "%Y-%m-%d").date(): <<year, month, day>>, NoDate
\* for the ValueError
Strptime(text) ==
    IF Len(text) = 10 /\ IsDateAt(text, 1)
    THEN LET y == Num(SubSeq(text, 1, 4))
             m == Num(SubSeq(text, 6, 7))
             d == Num(SubSeq(text, 9, 10))
         IN  IF y >= 1 /\ m \in 1..12 /\ d >= 1 /\ d <= DaysInMonth(y, m)
             THEN <<y, m, d>>
             ELSE NoDate
    ELSE NoDate

parse_iso_date(date_str) ==
    IF ~Truthy(date_str) THEN NoDate
    ELSE LET first == Strptime(IF In("T", date_str) THEN SplitT(date_str) ELSE date_str)
             found == {i \in 1..Len(date_str) : IsDateAt(date_str, i)}
         IN  IF first # NoDate THEN first
             ELSE IF found = {} THEN NoDate
             ELSE Strptime(SubSeq(date_str,
                                  CHOOSE i \in found : \A j \in found : i <= j,
                                  (CHOOSE i \in found : \A j \in found : i <= j) + 9))

is_awaiting_go_nogo_status(status_name) ==
    /\ status_name # ""
    /\ LET lower_status == Lower(status_name)
       IN  /\ In("awaiting", lower_status)
           /\ In("go", lower_status)
           /\ SearchWordProd(lower_status)

\* found[status] of get_rcz_release_date: the date of the first stamped
\* history, in array order, with a status item to exactly that status
RczFound(hs, status) ==
    FirstInArray(hs, {i \in 1..Len(hs) :
        \E j \in 1..Len(hs[i].items) :
            hs[i].items[j].field = "status" /\ hs[i].items[j].toString = status})

get_rcz_release_date(hs) ==
    IF RczFound(hs, "In production") # Null THEN RczFound(hs, "In production")
    ELSE IF RczFound(hs, "Awaiting Go / No go PROD") # Null
    THEN RczFound(hs, "Awaiting Go / No go PROD")
    ELSE RczFound(hs, "Deploying to PROD")

\* a or b
Or(a, b) == IF Truthy(a) THEN a ELSE b

\* the deploy date rules of the selection loops
\* by exact status, None for any other status
DateByExactStatus(iss) ==
    IF iss.status = "In production" THEN get_prod_date_from_history(iss.histories)
    ELSE IF iss.status = "Deploying to PROD"
    THEN get_deploying_to_prod_date_from_history(iss.histories)
    ELSE IF iss.status = "Awaiting Go / No go PROD"
    THEN get_awaiting_go_nogo_date_from_history(iss.histories)
    ELSE Null

\* APIM / EAH: by exact status, else the first transition found
DateApimEah(iss) ==
    IF iss.status \in {"In production", "Deploying to PROD", "Awaiting Go / No go PROD"}
    THEN DateByExactStatus(iss)
    ELSE Or(Or(get_prod_date_from_history(iss.histories),
               get_awaiting_go_nogo_date_from_history(iss.histories)),
            get_deploying_to_prod_date_from_history(iss.histories))

\* customfield_10044, then customfield_10043, then the Deploying to PROD transition
DateFieldsThenDeploying(iss) ==
    Or(Or(iss.cf10044, iss.cf10043),
       get_deploying_to_prod_date_from_history(iss.histories))

\* the Awaiting transition, then customfield_10044, then customfield_10043
DateAwaitingThenFields(iss) ==
    Or(Or(get_awaiting_go_nogo_date_from_history(iss.histories), iss.cf10044),
       iss.cf10043)

\* VDP_PROC (lines 1097-1114)
DateVdpProc(iss) ==
    IF iss.status = "In production" THEN get_prod_date_from_history(iss.histories)
    ELSE IF is_awaiting_go_nogo_status(iss.status) THEN DateAwaitingThenFields(iss)
    ELSE IF iss.status \in {"Preproduction", "Deploying to PROD"}
    THEN DateFieldsThenDeploying(iss)
    ELSE Null

\* VDP_DS and VDP_DS_MON: the Awaiting branch is taken for the exact label only
DateVdpExactAwaiting(iss) ==
    IF iss.status = "In production" THEN get_prod_date_from_history(iss.histories)
    ELSE IF iss.status = "Awaiting Go / No go PROD" THEN DateAwaitingThenFields(iss)
    ELSE DateFieldsThenDeploying(iss)

\* VDP_DS_SSDP, VDP_STORE and VDP_STORE_2: the Awaiting branch is taken for
\* every label is_awaiting_go_nogo_status accepts
DateVdpAnyAwaiting(iss) ==
    IF iss.status = "In production" THEN get_prod_date_from_history(iss.histories)
    ELSE IF is_awaiting_go_nogo_status(iss.status) THEN DateAwaitingThenFields(iss)
    ELSE DateFieldsThenDeploying(iss)

ThreeStatuses == {"In production", "Deploying to PROD", "Awaiting Go / No go PROD"}

ByExactStatusFamilies ==
    {"PATRIC-SSDP", "SYNAPSE", "REFTEL", "CALVA", "REFSER2", "SERING"}

\* the status test at the head of each selection loop
StatusAllowed(fam, status) ==
    CASE fam \in {"APIM", "EAH"} -> status # "Deploying to PPROD"
      [] fam = "DOCG" -> status = "In production"
      [] fam = "VDR" -> status \in {"Deploying to PROD", "Deploying To PROD"}
      [] fam \in ByExactStatusFamilies -> status \in ThreeStatuses
      [] fam = "RCZ" ->
            status \in {"In production", "Deploying to PPROD", "Awaiting Go / No go PROD"}
      [] fam \in {"VDP_PROC", "VDP_DS", "VDP_STORE", "VDP_STORE_2"} ->
            \/ status \in {"In production", "Deploying to PROD", "Preproduction"}
            \/ is_awaiting_go_nogo_status(status)
      [] fam \in {"VDP_DS_SSDP", "VDP_DS_MON"} ->
            status \in {"In production", "Deploying to PROD",
                        "Awaiting Go / No go PROD", "Preproduction"}

\* deploy_date_str / prod_date_str of each selection loop
DeployDateStr(fam, iss) ==
    CASE fam \in {"APIM", "EAH"} -> DateApimEah(iss)
      [] fam = "DOCG" -> get_prod_date_from_history(iss.histories)
      [] fam = "VDR" -> DateFieldsThenDeploying(iss)
      [] fam \in ByExactStatusFamilies -> DateByExactStatus(iss)
      [] fam = "RCZ" -> get_rcz_release_date(iss.histories)
      [] fam = "VDP_PROC" -> DateVdpProc(iss)
      [] fam \in {"VDP_DS", "VDP_DS_MON"} -> DateVdpExactAwaiting(iss)
      [] fam \in {"VDP_DS_SSDP", "VDP_STORE", "VDP_STORE_2"} -> DateVdpAnyAwaiting(iss)

\* str.strip() for the blanks that occur in summaries and versions
RECURSIVE StripText(_)
StripText(s) ==
    IF Len(s) = 0 THEN s
    ELSE IF At(s, 1) = " " THEN StripText(SubSeq(s, 2, Len(s)))
    ELSE IF At(s, Len(s)) = " " THEN StripText(SubSeq(s, 1, Len(s) - 1))
    ELSE s


\* the index after the run of characters of `chars` that starts at i
RECURSIVE RunEnd(_, _, _)
RunEnd(s, i, chars) ==
    IF i <= Len(s) /\ At(s, i) \in chars THEN RunEnd(s, i + 1, chars) ELSE i

\* ([0-9]+\.[0-9]+\.[0-9]+) matched at i: the index after the match, 0 for no match
VersionEnd(s, i) ==
    LET e1 == RunEnd(s, i, Digits)
        e2 == RunEnd(s, e1 + 1, Digits)
        e3 == RunEnd(s, e2 + 1, Digits)
    IN  IF /\ e1 > i /\ e1 <= Len(s) /\ At(s, e1) = "."
           /\ e2 > e1 + 1 /\ e2 <= Len(s) /\ At(s, e2) = "."
           /\ e3 > e2 + 1
        THEN e3 ELSE 0

\* <name>[-\s]*([0-9]+\.[0-9]+\.[0-9]+) with re.IGNORECASE, searched in s:
\* group(1) of the leftmost match, "" for no match.  name is lower case.
SearchVersion(s, name) ==
    LET low == Lower(s)
        start(i) == RunEnd(s, i + Len(name), {"-", " "})
        hits == {i \in 1..Len(s) :
                    /\ i + Len(name) - 1 <= Len(s)
                    /\ SubSeq(low, i, i + Len(name) - 1) = name
                    /\ VersionEnd(s, start(i)) # 0}
    IN  IF hits = {} THEN ""
        ELSE LET i == CHOOSE h \in hits : \A j \in hits : h <= j
             IN  SubSeq(s, start(i), VersionEnd(s, start(i)) - 1)

\* summary_full.split("-", 1)[1].strip() when "-" is in the summary
AfterFirstDash(s) ==
    LET ds == {i \in 1..Len(s) : At(s, i) = "-"}
    IN  IF ds = {} THEN ""
        ELSE StripText(SubSeq(s, (CHOOSE i \in ds : \A j \in ds : i <= j) + 1, Len(s)))

\* the summary_full global before any loop has assigned it
Unbound == "<unbound>"

\* the loops that assign summary_full right after the status test
AssignsSummaryEarly ==
    ByExactStatusFamilies \cup {"RCZ", "VDP_DS_SSDP", "VDP_DS_MON", "VDP_STORE", "VDP_STORE_2"}

\* the loops that assign summary_full only for an issue they keep
AssignsSummaryLate == {"DOCG", "VDR", "VDP_PROC"}

\* the summary test of each loop, on the summary_full the loop sees
SummaryAccepted(fam, summary_full) ==
    CASE fam = "RCZ" -> StartsWith(summary_full, "SSDP RCZ")
      [] fam \in {"SYNAPSE", "REFTEL", "CALVA", "REFSER2", "SERING"} ->
            StartsWith(summary_full, fam)
      [] fam = "VDP_DS" ->
            /\ ~(In("VDP_DS_SSDP", summary_full) \/ In("VDP DS SSDP", summary_full))
            /\ ~(In("VDP_DS_MON", summary_full) \/ In("VDP DS MON", summary_full))
      [] fam = "VDP_DS_SSDP" ->
            In("VDP_DS_SSDP", summary_full) \/ In("VDP DS SSDP", summary_full)
      [] fam = "VDP_DS_MON" ->
            In("VDP_DS_MON", summary_full) \/ In("VDP DS MON", summary_full)
      [] fam = "VDP_STORE" ->
            ~(\/ In("VDP_STORE_2", summary_full)
              \/ In("VDP STORE 2", summary_full)
              \/ In("VDP STORE_2", summary_full))
      [] OTHER -> TRUE

\* enabler_version of each loop; the APIM / EAH version is the one the
\* discovery regex read from the board summary
EnablerVersion(fam, c, summary_full) ==
    LET field == StripText(Or(c.issue.cf10042, ""))
    IN  CASE fam \in {"APIM", "EAH"} -> c.version
          [] fam = "PATRIC-SSDP" ->
                IF field # "" THEN field ELSE SearchVersion(summary_full, "patric-ssdp")
          [] fam = "RCZ" ->
                IF field # "" THEN field ELSE SearchVersion(summary_full, "ssdp rcz")
          [] fam = "REFTEL" ->
                IF field # "" THEN field ELSE AfterFirstDash(summary_full)
          [] fam \in {"CALVA", "REFSER2"} -> summary_full
          [] fam = "SERING" ->
                IF field # "" THEN field
                ELSE IF SearchVersion(summary_full, "sering") # ""
                THEN SearchVersion(summary_full, "sering")
                ELSE summary_full
          [] OTHER -> field

\* the loops that drop an issue without a version
VersionRequired ==
    {"VDP_PROC", "VDP_DS", "VDP_DS_SSDP", "VDP_DS_MON", "VDP_STORE", "VDP_STORE_2"}

\* enabler_name of each loop
EnablerName(fam, c) ==
    CASE fam \in {"DOCG", "VDR", "VDP_PROC", "VDP_DS", "VDP_STORE", "VDP_STORE_2"} ->
            Or(c.issue.cf10041, fam)
      [] fam \in {"VDP_DS_SSDP", "VDP_DS_MON"} -> Or(c.issue.cf10041, "VDP_DS")
      [] OTHER -> fam

\* one iteration of the selection loop of family fam on candidate c, entered
\* with the global summary_full: the enabler appended (NoEntry for a
\* `continue`), the summary_full left behind, and whether the iteration
\* raised NameError on the unbound summary_full (line 1157)
SelectStep(fam, c, summary_full) ==
    LET iss == c.issue
        dropped == [enabler |-> NoEntry, summary_full |-> summary_full, raised |-> FALSE]
    IN  IF ~iss.ok \/ ~StatusAllowed(fam, iss.status) THEN dropped
        ELSE IF fam = "VDP_DS" /\ summary_full = Unbound
        THEN [enabler |-> NoEntry, summary_full |-> summary_full, raised |-> TRUE]
        ELSE
        LET seen == IF fam \in AssignsSummaryEarly THEN StripText(iss.summary)
                    ELSE summary_full
            after == [dropped EXCEPT !.summary_full = seen]
            version == EnablerVersion(fam, c, seen)
            date_str == DeployDateStr(fam, iss)
            date == parse_iso_date(date_str)
        IN  IF ~SummaryAccepted(fam, seen) THEN after
            ELSE IF fam \in VersionRequired /\ version = "" THEN after
            ELSE IF date = NoDate THEN after
            ELSE IF Isocalendar(date) # <<target_year, target_week>> THEN after
            ELSE LET kept == IF fam \in AssignsSummaryLate THEN StripText(iss.summary)
                             ELSE seen
                 IN  [enabler |->
                        [family |-> fam,
                         key |-> c.key,
                         enabler_name |-> EnablerName(fam, c),
                         enabler_version |-> version,
                         summary |-> IF fam \in {"APIM", "EAH"} THEN c.summary ELSE kept,
                         status |-> IF fam \in {"APIM", "EAH"}
                                    THEN Or(iss.status, c.status) ELSE iss.status,
                         assignee |-> IF fam \in {"APIM", "EAH"} THEN c.assignee
                                      ELSE iss.assignee,
                         issuetype |-> IF fam \in {"APIM", "EAH"} THEN c.issuetype
                                       ELSE iss.issuetype,
                         deploy_date |-> date_str,
                         links |-> iss.links],
                      summary_full |-> kept,
                      raised |-> FALSE]

\* the fetched issues offered to one loop iteration
Stamp(date) == date \o "T10:15:00.000+0100"

TransitionsCanonical ==
    <<[created |-> Stamp("2026-02-03"), items |-> <<StatusItem("Awaiting Go / No go PROD")>>],
      [created |-> Stamp("2026-02-10"), items |-> <<StatusItem("Deploying to PROD")>>],
      [created |-> Stamp("2026-02-17"), items |-> <<StatusItem("In production")>>]>>

TransitionsVariant ==
    <<[created |-> Stamp("2026-02-03"), items |-> <<StatusItem("Awaiting Go / No Go PROD")>>],
      [created |-> Stamp("2026-02-10"), items |-> <<StatusItem("Deploying To PROD")>>],
      [created |-> Stamp("2026-02-17"), items |-> <<StatusItem("In production")>>]>>

SelectStatuses ==
    {"In production", "Deploying to PROD", "Deploying To PROD",
     "Awaiting Go / No go PROD", "Awaiting Go / No Go PROD", "Preproduction",
     "In progress"}

\* a summary the discovery loop files under fam
SummaryOf(fam) ==
    CASE fam = "APIM" -> "APIM-1.2.3"
      [] fam = "EAH" -> "EAH 1.2.3"
      [] fam = "PATRIC-SSDP" -> "PATRIC-SSDP-1.2.3"
      [] fam = "RCZ" -> "SSDP RCZ 1.2.3"
      [] OTHER -> fam \o "-1.2.3"

EnablerIssueType == "Enabler Version - IOT PF"

SelectCandidates ==
    {[family |-> fam, key |-> "SSDP-1", summary |-> SummaryOf(fam),
      status |-> "In progress", assignee |-> "", issuetype |-> EnablerIssueType,
      version |-> IF fam \in {"APIM", "EAH"} THEN "1.2.3" ELSE "",
      issue |-> [ok |-> TRUE, status |-> st, summary |-> SummaryOf(fam),
                 assignee |-> "", issuetype |-> EnablerIssueType, links |-> <<>>,
                 cf10041 |-> Null, cf10042 |-> v, cf10043 |-> Null, cf10044 |-> f44,
                 histories |-> hs]] :
        fam \in Families, st \in SelectStatuses, v \in {Null, "1.2.3"},
        f44 \in {Null, "2026-02-24"},
        hs \in {<<>>, TransitionsCanonical, TransitionsVariant}}

SelectWeeks == {6, 7, 8, 9}

InitSelect ==
    /\ sel_cand \in SelectCandidates
    /\ sel_before \in {Unbound, "SERING-1.2.3"}
    /\ sel_result = NoEntry
    /\ stopper = <<>>
    /\ target_year = 2026
    /\ target_week \in SelectWeeks
    /\ IdleStore
    /\ IdlePersist
    /\ IdleWeek
    /\ IdleDisc
    /\ IdleHist
    /\ IdleRun
    /\ IdleFile
    /\ IdleParse
    /\ IdleFlow
    /\ IdleRcz
    /\ IdleGaps
    /\ IdlePub
    /\ IdleId

\* one iteration of the selection loop of the candidate's family
SelectOne ==
    /\ sel_result = NoEntry
    /\ sel_result' = SelectStep(sel_cand.family, sel_cand, sel_before)
    /\ UNCHANGED <<sel_cand, sel_before, outsideSel>>

NextSelect == SelectOne

SpecSelect == InitSelect /\ [][NextSelect]_vars

----------------------------------------------------------------------------
(* Selection: claim C11                                                    *)

\* the text without its blanks
RECURSIVE Squash(_)
Squash(s) ==
    IF Len(s) = 0 THEN ""
    ELSE IF At(s, 1) = " " THEN Squash(SubSeq(s, 2, Len(s)))
    ELSE At(s, 1) \o Squash(SubSeq(s, 2, Len(s)))

\* the trigger status that label differs from in capitalisation or spacing
\* only; the label itself when there is none
CanonicalLabel(label) ==
    LET same == {t \in ThreeStatuses : Squash(Lower(t)) = Squash(Lower(label))}
    IN  IF same = {} THEN label ELSE CHOOSE t \in same : TRUE

\* the same candidate carrying the canonical labels
WithCanonicalLabels(c) ==
    [c EXCEPT
        !.issue.status = CanonicalLabel(@),
        !.issue.histories =
            [i \in 1..Len(@) |->
                [@[i] EXCEPT !.items =
                    [j \in 1..Len(@) |->
                        [@[j] EXCEPT !.toString = CanonicalLabel(@)]]]]]

DateOf(result) == IF result.enabler = NoEntry THEN Null ELSE result.enabler.deploy_date

\* C11: in every family an issue whose status or history labels are
\* capitalisation/spacing variants of a trigger status passes the status
\* filter and gets the same deploy date as the same issue with the canonical
\* labels.
C11_VariantLabelSameSelection ==
    sel_result # NoEntry =>
        LET canonical ==
                SelectStep(sel_cand.family, WithCanonicalLabels(sel_cand), sel_before)
        IN  /\ StatusAllowed(sel_cand.family, sel_cand.issue.status)
                = StatusAllowed(sel_cand.family, CanonicalLabel(sel_cand.issue.status))
            /\ (sel_result.enabler = NoEntry) = (canonical.enabler = NoEntry)
            /\ DateOf(sel_result) = DateOf(canonical)

----------------------------------------------------------------------------
(* extract.py: one run from the selection loops to the snapshot, and the   *)
(* workflow of app.py around it                                            *)

\* the characters of versions and names in code point order
Alphabet ==
    " -.0123456789ABCDEFGHIJKLMNOPQRSTUVWXYZ_abcdefghijklmnopqrstuvwxyz"

\* a number that orders characters as ord() does
CodePoint(c) == CHOOSE i \in 1..Len(Alphabet) : At(Alphabet, i) = c

\* the text as the sequence Python compares
TextKey(s) == [i \in 1..Len(s) |-> CodePoint(At(s, i))]

\* Python's < on tuples of integers
RECURSIVE IntSeqLess(_, _)
IntSeqLess(a, b) ==
    IF b = <<>> THEN FALSE
    ELSE IF a = <<>> THEN TRUE
    ELSE IF Head(a) # Head(b) THEN Head(a) < Head(b)
    ELSE IntSeqLess(Tail(a), Tail(b))

\* re.findall(r"\d+", v) as integers, scanning from position i
RECURSIVE DigitRuns(_, _)
DigitRuns(v, i) ==
    IF i > Len(v) THEN <<>>
    ELSE IF At(v, i) \in Digits
    THEN <<Num(SubSeq(v, i, RunEnd(v, i, Digits) - 1))>>
            \o DigitRuns(v, RunEnd(v, i, Digits))
    ELSE DigitRuns(v, i + 1)

vtuple(v) == DigitRuns(v, 1)

\* sorted(items, key=...): pairs is the sequence of [key, item]; the sort is
\* stable
RECURSIVE InsertByKey(_, _)
InsertByKey(sorted, p) ==
    IF sorted = <<>> THEN <<p>>
    ELSE IF IntSeqLess(p.key, Head(sorted).key)
    THEN <<p>> \o sorted
    ELSE <<Head(sorted)>> \o InsertByKey(Tail(sorted), p)

RECURSIVE SortedByKey(_)
SortedByKey(pairs) ==
    IF pairs = <<>> THEN <<>>
    ELSE InsertByKey(SortedByKey(SubSeq(pairs, 1, Len(pairs) - 1)), pairs[Len(pairs)])

\* the selection loops in the order the script runs them
LoopOrder ==
    <<"APIM/EAH", "DOCG", "VDR", "PATRIC-SSDP", "RCZ", "SYNAPSE", "REFTEL", "CALVA",
      "REFSER2", "SERING", "VDP_PROC", "VDP_DS", "VDP_DS_SSDP", "VDP_DS_MON",
      "VDP_STORE", "VDP_STORE_2">>

LoopOf(fam) == IF fam \in {"APIM", "EAH"} THEN "APIM/EAH" ELSE fam

LoopIndex(fam) == CHOOSE i \in 1..Len(LoopOrder) : LoopOrder[i] = LoopOf(fam)

\* <family>_enablers: the enablers a loop appended, in append order
RECURSIVE EnablersOf(_, _)
EnablersOf(loop, es) ==
    IF es = <<>> THEN <<>>
    ELSE IF LoopOf(Head(es).family) = loop
    THEN <<Head(es)>> \o EnablersOf(loop, Tail(es))
    ELSE EnablersOf(loop, Tail(es))

\* the sort key of the block loop of each family
BlockSortKey(e) ==
    IF e.family \in {"APIM", "EAH"}
    THEN <<IF e.family = "APIM" THEN 0 ELSE 1>> \o vtuple(e.enabler_version)
    ELSE TextKey(e.enabler_version)

\* the enablers of a loop in the order their blocks are written
BlockOrder(loop, es) ==
    LET own == EnablersOf(loop, es)
        sorted == SortedByKey([i \in 1..Len(own) |-> [key |-> BlockSortKey(own[i]),
                                                      item |-> own[i]]])
    IN  [i \in 1..Len(sorted) |-> sorted[i].item]

\* header_name of the block of enabler e
HeaderName(e) ==
    LET ver == e.enabler_version
    IN  CASE e.family \in {"APIM", "EAH"} -> e.family \o "-" \o ver
          [] e.family \in {"DOCG", "VDR", "VDP_PROC"} ->
                IF ver # "" THEN Or(e.enabler_name, e.family) \o "-" \o ver
                ELSE Or(e.enabler_name, e.family)
          [] e.family \in {"CALVA", "REFSER2"} -> IF ver # "" THEN ver ELSE e.family
          [] e.family = "SERING" ->
                IF StartsWith(ver, "SERING") THEN ver
                ELSE IF ver # "" THEN "SERING-" \o ver ELSE "SERING"
          [] OTHER -> IF ver # "" THEN e.family \o "-" \o ver ELSE e.family

\* the families whose header is appended with a trailing newline
HeaderWithNewline == {"VDP_PROC", "VDP_DS", "VDP_DS_SSDP", "VDP_DS_MON"}

\* extract_linked_issues_from_issue_json: the links that pass the filters
RECURSIVE LinkedIssues(_)
LinkedIssues(links) ==
    IF links = <<>> THEN <<>>
    ELSE LET l == Head(links)
             keep ==
                /\ ~(StartsWith(l.key, "CVCP") \/ StartsWith(l.key, "CVMP"))
                /\ ~StartsWith(Lower(l.type), "cloner")
                /\ \/ \E p \in {"APIM", "EAH", "DOCG", "VDR", "VDP", "PATRIC"} :
                            StartsWith(l.key, p)
                   \/ In("story", Lower(l.issuetype))
                   \/ In("bug", Lower(l.issuetype))
         IN  (IF keep THEN <<l>> ELSE <<>>) \o LinkedIssues(Tail(links))

Line(label, value) == label \o ": " \o value

OptionalLine(label, value) == IF Truthy(value) THEN <<Line(label, value)>> ELSE <<>>

RECURSIVE LinkedLines(_)
LinkedLines(linked) ==
    IF linked = <<>> THEN <<>>
    ELSE LET l == Head(linked)
         IN  <<Line("Issue", l.key), Line("Summary", StripText(l.summary)),
               Line("Status", l.status)>>
                \o OptionalLine("Owner", l.assignee)
                \o OptionalLine("Issue Type", l.issuetype)
                \o OptionalLine("Created", l.created)
                \o <<"">>
                \o LinkedLines(Tail(linked))

\* the out_lines of the block of enabler e
BlockLines(e) ==
    <<"======= " \o HeaderName(e) \o " (" \o e.key \o ") =======">>
        \o (IF e.family \in HeaderWithNewline THEN <<"">> ELSE <<>>)
        \o <<"", Line("Issue", e.key), Line("Summary", e.summary),
             Line("Status", e.status)>>
        \o OptionalLine("Owner", e.assignee)
        \o OptionalLine("Issue Type", e.issuetype)
        \o OptionalLine("Deploy Date", e.deploy_date)
        \o <<"">>
        \o (IF LinkedIssues(e.links) # <<>>
            THEN <<"Linked issues:", "">> \o LinkedLines(LinkedIssues(e.links))
            ELSE <<"No linked issues found.", "">>)
        \o <<"">>

RECURSIVE BlocksLines(_)
BlocksLines(es) ==
    IF es = <<>> THEN <<>> ELSE BlockLines(Head(es)) \o BlocksLines(Tail(es))

RECURSIVE AllBlocks(_, _)
AllBlocks(i, es) ==
    IF i > Len(LoopOrder) THEN <<>>
    ELSE BlocksLines(BlockOrder(LoopOrder[i], es)) \o AllBlocks(i + 1, es)

\* "\n".join(out_lines).rstrip() + "\n": the lines of Linked_Issues_Report.txt
RECURSIVE RStripLines(_)
RStripLines(lines) ==
    IF lines # <<>> /\ StripText(lines[Len(lines)]) = ""
    THEN RStripLines(SubSeq(lines, 1, Len(lines) - 1))
    ELSE lines

ReportLines(es) == RStripLines(AllBlocks(1, es))

\* "\n".join(lines)
RECURSIVE JoinLines(_)
JoinLines(lines) ==
    IF lines = <<>> THEN ""
    ELSE IF Len(lines) = 1 THEN lines[1]
    ELSE lines[1] \o "\n" \o JoinLines(Tail(lines))

\* content, the text of Linked_Issues_Report.txt
ReportText(es) ==
    IF ReportLines(es) = <<>> THEN "" ELSE JoinLines(ReportLines(es)) \o "\n"

\* a snapshot that counts every trigger status in every family
SnapshotStatusesAnyTrigger(fam) ==
    IF fam = "RCZ"
    THEN {"In production", "Deploying to PPROD", "Awaiting Go / No go PROD"}
    ELSE ThreeStatuses

\* the statuses whose versions the snapshot of each family counts
SnapshotStatuses(fam) ==
    CASE fam \in {"APIM", "EAH", "DOCG", "PATRIC-SSDP"} -> {"In production"}
      [] fam = "RCZ" ->
            {"In production", "Deploying to PPROD", "Awaiting Go / No go PROD"}
      [] fam = "VDR" -> {"Deploying to PROD", "Deploying To PROD"}
      [] fam \in {"SYNAPSE", "REFTEL", "CALVA", "REFSER2", "SERING"} -> ThreeStatuses
      [] OTHER -> {"In production", "Deploying to PROD", "Deploying To PROD"}

\* set(<family>_versions)
SnapshotVersions(fam, es) ==
    {es[i].enabler_version : i \in
        {i \in 1..Len(es) :
            /\ es[i].family = fam
            /\ es[i].status \in SnapshotStatuses(fam)
            /\ fam \in {"APIM", "EAH"} \/ es[i].enabler_version # ""}}

\* sorted(set(versions), key=vtuple); versions with the same key come in the
\* iteration order of the set, for which the text order stands here
RECURSIVE SortedVersions(_)
SortedVersions(vs) ==
    IF vs = {} THEN <<>>
    ELSE LET least == CHOOSE v \in vs :
                        \A w \in vs \ {v} :
                            \/ IntSeqLess(vtuple(v), vtuple(w))
                            \/ /\ vtuple(v) = vtuple(w)
                               /\ IntSeqLess(TextKey(v), TextKey(w))
         IN  <<least>> \o SortedVersions(vs \ {least})

\* ",".join(parts)
RECURSIVE JoinComma(_)
JoinComma(parts) ==
    IF parts = <<>> THEN ""
    ELSE IF Len(parts) = 1 THEN parts[1]
    ELSE parts[1] \o "," \o JoinComma(Tail(parts))

\* the RCZ versions are written with the "RCZ " prefix
RczFormatted(vs) ==
    [i \in 1..Len(vs) |-> IF StartsWith(vs[i], "RCZ ") THEN vs[i] ELSE "RCZ " \o vs[i]]

\* store_entry as the run leaves it (lines 2239-2459)
StoreEntryOf(es) ==
    [fam \in Families |->
        LET sorted == SortedVersions(SnapshotVersions(fam, es))
        IN  IF sorted = <<>> THEN Null
            ELSE IF fam = "RCZ" THEN JoinComma(RczFormatted(sorted))
            ELSE JoinComma(sorted)]

\* the families the "counts" object of the run's JSON output has an entry for
CountedLoops ==
    {"APIM/EAH", "DOCG", "VDR", "PATRIC-SSDP", "RCZ", "SYNAPSE", "REFTEL", "CALVA",
     "REFSER2", "SERING", "VDP_PROC", "VDP_DS", "VDP_DS_SSDP", "VDP_DS_MON"}

\* sum(counts.values()) as run_workflow computes it
TotalReleases(es) ==
    Cardinality({i \in 1..Len(es) : LoopOf(es[i].family) \in CountedLoops})

----------------------------------------------------------------------------
(* summarize.py: the report parser (lines 115-275), on the report text     *)

\* the characters \s matches and strip() removes
WS == {" ", "\n", "\t"}

\* s.strip()
RECURSIVE StripWs(_)
StripWs(s) ==
    IF Len(s) = 0 THEN s
    ELSE IF At(s, 1) \in WS THEN StripWs(SubSeq(s, 2, Len(s)))
    ELSE IF At(s, Len(s)) \in WS THEN StripWs(SubSeq(s, 1, Len(s) - 1))
    ELSE s

\* the position of the first occurrence of sub in s at or after i, 0 for none
FindFrom(sub, s, i) ==
    LET at == {k \in i..(Len(s) - Len(sub) + 1) : SubSeq(s, k, k + Len(sub) - 1) = sub}
    IN  IF at = {} THEN 0 ELSE CHOOSE k \in at : \A m \in at : k <= m

Find(sub, s) == FindFrom(sub, s, 1)

\* the position of the newline that ends the line of position i, Len(s) + 1
\* on the last line
LineEnd(s, i) == IF FindFrom("\n", s, i) = 0 THEN Len(s) + 1 ELSE FindFrom("\n", s, i)

\* s.rstrip(".")
RECURSIVE RStripDots(_)
RStripDots(s) ==
    IF Len(s) > 0 /\ At(s, Len(s)) = "." THEN RStripDots(SubSeq(s, 1, Len(s) - 1)) ELSE s

\* header_re tried at the line start p:
\*   ^=+\s*(.*?)\s*\(([^)]+)\)\s*=+\s*$   with re.MULTILINE
\* from the "(" at q on: [ok, key_end, end]
HeaderTail(raw, q) ==
    LET k == FindFrom(")", raw, q + 1)
        r == RunEnd(raw, k + 1, WS)
        r2 == RunEnd(raw, r, {"="})
        r3 == RunEnd(raw, r2, WS)
        breaks == {n \in r2..(r3 - 1) : At(raw, n) = "\n"}
    IN  IF /\ k > q + 1
           /\ r2 > r
           /\ r3 > Len(raw) \/ breaks # {}
        THEN [ok |-> TRUE, key_end |-> k,
              end |-> IF r3 > Len(raw) THEN r3
                      ELSE CHOOSE n \in breaks : \A m \in breaks : m <= n]
        ELSE [ok |-> FALSE, key_end |-> 0, end |-> 0]

\* the match at p: [ok, header, key, end]; group 1 is lazy, so it ends at
\* the first position from which the rest of the pattern matches
HeaderAt(raw, p) ==
    LET a == RunEnd(raw, p, {"="})
        b == RunEnd(raw, a, WS)
        ends == {e \in b..LineEnd(raw, b) :
                    LET q == RunEnd(raw, e, WS)
                    IN  q <= Len(raw) /\ At(raw, q) = "(" /\ HeaderTail(raw, q).ok}
    IN  IF a = p \/ ends = {} THEN [ok |-> FALSE, header |-> "", key |-> "", end |-> 0]
        ELSE LET e == CHOOSE x \in ends : \A y \in ends : x <= y
                 q == RunEnd(raw, e, WS)
                 t == HeaderTail(raw, q)
             IN  [ok |-> TRUE, start |-> p, header |-> SubSeq(raw, b, e - 1),
                  key |-> SubSeq(raw, q + 1, t.key_end - 1), end |-> t.end]

\* header_re.finditer(raw) from the line start p on
RECURSIVE HeaderMatches(_, _)
HeaderMatches(raw, p) ==
    IF p > Len(raw) THEN <<>>
    ELSE IF HeaderAt(raw, p).ok
    THEN <<HeaderAt(raw, p)>> \o HeaderMatches(raw, LineEnd(raw, HeaderAt(raw, p).end) + 1)
    ELSE HeaderMatches(raw, LineEnd(raw, p) + 1)

known_systems ==
    <<"PATRIC-SSDP", "VDP_DS_SSDP", "VDP_DS_MON", "VDP_STORE_2", "VDP_STORE",
      "VDP_PROC", "VDP_DS", "SYNAPSE", "REFTEL", "REFSER2", "SERING", "CALVA",
      "APIM", "EAH", "DOCG", "VDR", "RCZ">>

\* split_header: <<system, version>>.  upper() is compared through lower().
split_header(header_text) ==
    LET header_clean == StripWs(header_text)
        hits == {i \in 1..Len(known_systems) :
                    StartsWith(Lower(header_clean), Lower(known_systems[i]))}
    IN  IF hits = {} THEN <<"", "">>
        ELSE LET system == known_systems[CHOOSE i \in hits : \A j \in hits : i <= j]
                 remainder == StripWs(SubSeq(header_clean, Len(system) + 1, Len(header_clean)))
                 dashless == StripWs(SubSeq(remainder, RunEnd(remainder, 1, WS \cup {"-"}),
                                          Len(remainder)))
             IN  <<system, RStripDots(dashless)>>

\* re.search(r"^Summary:\s*(.+)$", body, re.MULTILINE): group(1).strip(), ""
\* when there is no match or only blanks follow
SummaryLine(body) ==
    LET starts == {p \in 1..Len(body) :
                      /\ p = 1 \/ At(body, p - 1) = "\n"
                      /\ p + 7 <= Len(body)
                      /\ SubSeq(body, p, p + 7) = "Summary:"}
    IN  IF starts = {} THEN ""
        ELSE LET p == CHOOSE x \in starts : \A y \in starts : x <= y
                 w == RunEnd(body, p + 8, WS)
             IN  StripWs(SubSeq(body, w, LineEnd(body, w) - 1))

infer_version_from_body(system, fallback_version, body) ==
    IF fallback_version # "" /\ fallback_version # "None" THEN fallback_version
    ELSE LET summary_text == RStripDots(SummaryLine(body))
         IN  IF summary_text = "" THEN fallback_version
             ELSE IF system = "DOCG" THEN summary_text
             ELSE IF StartsWith(Lower(summary_text), Lower(system))
             THEN LET rest == SubSeq(summary_text, Len(system) + 1, Len(summary_text))
                  IN  RStripDots(StripWs(SubSeq(rest, RunEnd(rest, 1, {"-", " "}), Len(rest))))
             ELSE summary_text

\* the blocks of the matches ms[i..]
RECURSIVE BlocksFrom(_, _, _)
BlocksFrom(raw, ms, i) ==
    IF i > Len(ms) THEN <<>>
    ELSE LET stop == IF i < Len(ms) THEN ms[i + 1].start ELSE Len(raw) + 1
             body == StripWs(SubSeq(raw, ms[i].end, stop - 1))
             sv == split_header(StripWs(ms[i].header))
         IN  (IF sv[1] = "" THEN <<>>
              ELSE <<[system |-> sv[1],
                      version |-> infer_version_from_body(sv[1], sv[2], body),
                      enabler_key |-> StripWs(ms[i].key),
                      body |-> body]>>)
                \o BlocksFrom(raw, ms, i + 1)

parse_blocks(raw) == BlocksFrom(raw, HeaderMatches(raw, 1), 1)

\* body.split("Issue:")
RECURSIVE SplitIssues(_)
SplitIssues(body) ==
    IF Find("Issue:", body) = 0 THEN <<body>>
    ELSE <<SubSeq(body, 1, Find("Issue:", body) - 1)>>
            \o SplitIssues(SubSeq(body, Find("Issue:", body) + 6, Len(body)))

\* re.search(r"<label>\s*(.*)", part) for the labels of one field:
\* group.strip() of the leftmost match, "" for no match
Field(part, labels) ==
    LET present == {l \in labels : Find(l, part) > 0}
    IN  IF present = {} THEN ""
        ELSE LET label == CHOOSE l \in present :
                            \A m \in present : Find(l, part) <= Find(m, part)
                 w == RunEnd(part, Find(label, part) + Len(label), WS)
             IN  StripWs(SubSeq(part, w, LineEnd(part, w) - 1))

IssueOf(part) ==
    [summary |-> Field(part, {"Summary:"}),
     issue_type |-> Field(part, {"Issue Type:"}),
     status |-> Field(part, {"Status:"}),
     owner |-> Field(part, {"Owner:", "Assignee:"}),
     created |-> Field(part, {"Created:"}),
     deploy_date |-> Field(part, {"Deploy Date:"})]

extract_issues(body) ==
    LET parts == SplitIssues(body)
    IN  [i \in 1..(Len(parts) - 1) |-> IssueOf(parts[i + 1])]

classify(issue_type) ==
    LET it == Lower(issue_type)
    IN  IF In("user story", it) THEN "FEATURES"
        ELSE IF In("technical story", it) \/ In("tech", it) THEN "CODE"
        ELSE IF In("bug", it) THEN "BUGS"
        ELSE "FEATURES"

\* the entry of build_changes for one block, merged into the entry `old` of
\* an earlier block with the same system and version
EmptyChange == [FEATURES |-> <<>>, CODE |-> <<>>, BUGS |-> <<>>, DEPLOY |-> "", STATUS |-> ""]

RECURSIVE AddIssues(_, _, _)
AddIssues(entry, sysname, issues) ==
    IF issues = <<>> THEN entry
    ELSE LET iss == Head(issues)
             bucket == classify(iss.issue_type)
             withStatus == IF entry.STATUS = "" /\ iss.status # ""
                           THEN [entry EXCEPT !.STATUS = iss.status] ELSE entry
             withSummary == IF iss.summary # ""
                            THEN [withStatus EXCEPT ![bucket] = Append(@, iss.summary)]
                            ELSE withStatus
         IN  AddIssues(withSummary, sysname, Tail(issues))

RECURSIVE LastDeploy(_, _)
LastDeploy(deploy, issues) ==
    IF issues = <<>> THEN deploy
    ELSE LastDeploy(IF Head(issues).deploy_date # "" THEN Head(issues).deploy_date
                    ELSE deploy, Tail(issues))

\* build_changes: <<system, version>> -> entry
RECURSIVE build_changes_from(_, _)
build_changes_from(out, blocks) ==
    IF blocks = <<>> THEN out
    ELSE LET b == Head(blocks)
             k == <<b.system, b.version>>
             issues == extract_issues(b.body)
             old == IF k \in DOMAIN out THEN out[k] ELSE EmptyChange
             dated == IF b.system \notin {"APIM", "EAH"}
                      THEN [old EXCEPT !.DEPLOY = LastDeploy(@, issues)] ELSE old
             new == AddIssues(dated, b.system, issues)
         IN  build_changes_from([x \in DOMAIN out \cup {k} |-> IF x = k THEN new ELSE out[x]],
                                Tail(blocks))

build_changes(blocks) == build_changes_from(<<>>, blocks)

----------------------------------------------------------------------------
(* One run of extract.py on the candidates of a board, followed by the     *)
(* decision of run_workflow and by summarize.py's parse of the report.     *)

MaxCandidates == 2

RunWeek == 8

\* a changelog whose trigger transition of family fam falls in RunWeek
RunHistory(fam) ==
    IF fam = "VDR"
    THEN <<[created |-> Stamp("2026-02-17"), items |-> <<StatusItem("Deploying to PROD")>>]>>
    ELSE TransitionsCanonical

\* a changelog whose transitions all fall in the week before RunWeek
EarlierHistory(fam) ==
    <<[created |-> Stamp("2026-02-10"),
       items |-> <<StatusItem(IF fam = "VDR" THEN "Deploying to PROD"
                              ELSE "In production")>>]>>

RunStatus(fam) == IF fam = "VDR" THEN "Deploying to PROD" ELSE "In production"

\* a summary the discovery loop files under fam, carrying version v
RunSummary(fam, v) ==
    CASE fam = "RCZ" -> "SSDP RCZ " \o (IF StartsWith(v, "RCZ ") THEN SubSeq(v, 5, Len(v)) ELSE v)
      [] fam = "EAH" -> "EAH " \o v
      [] OTHER -> fam \o "-" \o v

RunKinds == {"selected", "fetch failed", "undated", "other week"}

\* the candidate a board issue of family fam gives rise to
RunCandidate(fam, kind, v, name) ==
    [family |-> fam, key |-> "", summary |-> RunSummary(fam, v),
     status |-> RunStatus(fam), assignee |-> "Ann", issuetype |-> EnablerIssueType,
     version |-> IF fam \in {"APIM", "EAH"} THEN v ELSE "",
     issue |-> [ok |-> kind # "fetch failed", status |-> RunStatus(fam),
                summary |-> RunSummary(fam, v),
                assignee |-> "Ann", issuetype |-> EnablerIssueType, links |-> <<>>,
                cf10041 |-> name,
                cf10042 |-> IF v = "" THEN Null ELSE v,
                cf10043 |-> Null, cf10044 |-> Null,
                histories |-> CASE kind = "undated" -> <<>>
                                [] kind = "other week" -> EarlierHistory(fam)
                                [] OTHER -> RunHistory(fam)]]

\* the versions and enabler names that occur on the board
RunVersions(fam) ==
    CASE fam \in {"APIM", "DOCG"} -> {"1.9.0", "1.10.0"} \cup (IF fam = "DOCG" THEN {""} ELSE {})
      [] fam = "RCZ" -> {"1.9.0", "RCZ 1.9.0"}
      [] fam = "PATRIC-SSDP" -> {"1.9.0", ""}
      [] OTHER -> {"1.9.0"}

RunNames(fam) == IF fam \in {"DOCG", "VDR"} THEN {Null, "DocGen"} ELSE {Null}

RunBoard ==
    UNION {{RunCandidate(fam, "selected", v, name) :
                v \in RunVersions(fam), name \in RunNames(fam)}
           \cup {RunCandidate(fam, kind, "1.9.0", Null) : kind \in RunKinds} :
           fam \in Families}

\* the candidates with the issue keys of their places on the board
Keyed(cs) ==
    [i \in 1..Len(cs) |-> [cs[i] EXCEPT !.key = "SSDP-" \o At("123456789", i)]]

InLoopOrder(cs) ==
    \A i \in 1..(Len(cs) - 1) : LoopIndex(cs[i].family) <= LoopIndex(cs[i + 1].family)

InitRun ==
    /\ \E n \in 0..MaxCandidates :
        \E cs \in [1..n -> RunBoard] : InLoopOrder(cs) /\ run_cands = Keyed(cs)
    /\ run_pos = 1
    /\ run_pc = "select"
    /\ run_summary_full = Unbound
    /\ run_enablers = <<>>
    /\ run_report = ""
    /\ run_entry = NoEntry
    /\ run_total = NoneInt
    /\ run_blocks = <<>>
    /\ stopper = <<>>
    /\ target_year = 2026
    /\ target_week = RunWeek
    /\ IdleStore
    /\ IdlePersist
    /\ IdleWeek
    /\ IdleDisc
    /\ IdleHist
    /\ IdleSel
    /\ IdleFile
    /\ IdleParse
    /\ IdleFlow
    /\ IdleRcz
    /\ IdleGaps
    /\ IdlePub
    /\ IdleId

\* one iteration of a selection loop; NameError ends the script with exit
\* status 1 before anything is written
RunSelect ==
    /\ run_pc = "select"
    /\ run_pos <= Len(run_cands)
    /\ LET c == run_cands[run_pos]
           r == SelectStep(c.family, c, run_summary_full)
       IN  /\ run_pc' = IF r.raised THEN "failed" ELSE "select"
           /\ run_summary_full' = r.summary_full
           /\ run_enablers' = IF r.enabler = NoEntry THEN run_enablers
                              ELSE Append(run_enablers, r.enabler)
    /\ run_pos' = run_pos + 1
    /\ UNCHANGED <<run_cands, run_report, run_entry, run_total, run_blocks, baseVars,
                   outsideRun>>

\* the block loops and the write of Linked_Issues_Report.txt
RunWriteReport ==
    /\ run_pc = "select"
    /\ run_pos > Len(run_cands)
    /\ run_report' = ReportText(run_enablers)
    /\ run_pc' = "persist"
    /\ UNCHANGED <<run_cands, run_pos, run_summary_full, run_enablers, run_entry,
                   run_total, run_blocks, baseVars, outsideRun>>

\* store_entry and the persist step, without --force
RunPersist ==
    /\ run_pc = "persist"
    /\ LET new == StoreEntryOf(run_enablers)
           key == week_str(target_year, target_week)
           old == IF key \in DOMAIN stopper THEN stopper[key] ELSE NoEntry
       IN  /\ run_entry' = new
           /\ stopper' = IF ShouldUpdate(FALSE, old, new)
                         THEN [k \in DOMAIN stopper \cup {key} |->
                                    IF k = key THEN new ELSE stopper[k]]
                         ELSE stopper
    /\ run_pc' = "extracted"
    /\ UNCHANGED <<run_cands, run_pos, run_summary_full, run_enablers, run_report,
                   run_total, run_blocks, target_year, target_week, outsideRun>>

\* run_workflow after extract.py exited with status 0: total_releases is the
\* sum of "counts"; 0 skips summarize.py and publish.py for the week
RunCountReleases ==
    /\ run_pc = "extracted"
    /\ run_total' = TotalReleases(run_enablers)
    /\ run_pc' = IF TotalReleases(run_enablers) = 0 THEN "skipped" ELSE "summarize"
    /\ UNCHANGED <<run_cands, run_pos, run_summary_full, run_enablers, run_report,
                   run_entry, run_blocks, baseVars, outsideRun>>

\* summarize.py reads the report back
RunSummarize ==
    /\ run_pc = "summarize"
    /\ run_blocks' = parse_blocks(run_report)
    /\ run_pc' = "publish"
    /\ UNCHANGED <<run_cands, run_pos, run_summary_full, run_enablers, run_report,
                   run_entry, run_total, baseVars, outsideRun>>

\* publish.py
RunPublish ==
    /\ run_pc = "publish"
    /\ run_pc' = "published"
    /\ UNCHANGED <<run_cands, run_pos, run_summary_full, run_enablers, run_report,
                   run_entry, run_total, run_blocks, baseVars, outsideRun>>

NextRun ==
    \/ RunSelect
    \/ RunWriteReport
    \/ RunPersist
    \/ RunCountReleases
    \/ RunSummarize
    \/ RunPublish

SpecRun == InitRun /\ [][NextRun]_vars

----------------------------------------------------------------------------
(* One run: claims C12, C13, C14, C16, C19 and C20                          *)

\* a version without the family name it may start with
BareVersion(fam, v) ==
    IF StartsWith(v, fam)
    THEN StripText(SubSeq(v, RunEnd(v, Len(fam) + 1, {"-", " "}), Len(v)))
    ELSE v

\* block b of the parsed report is the release e
ParsedAs(b, e) ==
    /\ b.system = e.family
    /\ b.enabler_key = e.key
    /\ b.version \in {e.enabler_version, BareVersion(e.family, e.enabler_version)}
    /\ extract_issues(b.body) # <<>>
    /\ extract_issues(b.body)[1].status = e.status

\* C12: every release that the run selected and wrote to the report is read
\* back by parse_blocks as a block of the same family, version and issue key
\* whose first issue has the same status, whatever the header variant.
C12_RoundTrip ==
    run_pc = "publish" =>
        \A i \in 1..Len(run_enablers) :
            \E j \in 1..Len(run_blocks) : ParsedAs(run_blocks[j], run_enablers[i])

\* the selected release with issue key k, NoEntry for none
ReleaseOfKey(k) ==
    LET same == {i \in 1..Len(run_enablers) : run_enablers[i].key = k}
    IN  IF same = {} THEN NoEntry ELSE run_enablers[CHOOSE i \in same : TRUE]

\* C13: in the report written by a run, the blocks of one family are in
\* ascending order of the numeric tuple of the digit runs of their versions
\* (1.9.0 before 1.10.0, a version without digits first), in every family.
C13_BlocksInNumericOrder ==
    run_pc \notin {"select", "failed"} =>
        LET ms == HeaderMatches(run_report, 1)
        IN  \A i, j \in 1..Len(ms) :
                LET a == ReleaseOfKey(ms[i].key)
                    b == ReleaseOfKey(ms[j].key)
                IN  (i < j /\ a # NoEntry /\ b # NoEntry /\ a.family = b.family)
                        => ~IntSeqLess(vtuple(b.enabler_version), vtuple(a.enabler_version))

\* candidate c was fetched with a status its loop keeps, and no deploy date
\* can be resolved for it
Undated(c) ==
    /\ c.issue.ok
    /\ StatusAllowed(c.family, c.issue.status)
    /\ parse_iso_date(DeployDateStr(c.family, c.issue)) = NoDate

\* the candidates the selection loops have gone through
Processed == {i \in 1..Len(run_cands) : i < run_pos}

\* whether the selection loops raise on candidates cs from the i-th on,
\* entered with the global summary_full
RECURSIVE Raises(_, _, _)
Raises(cs, i, summary_full) ==
    IF i > Len(cs) THEN FALSE
    ELSE LET r == SelectStep(cs[i].family, cs[i], summary_full)
         IN  r.raised \/ Raises(cs, i + 1, r.summary_full)

\* the candidates with the i-th one replaced by c
Replaced(cs, i, c) == [k \in 1..Len(cs) |-> IF k = i THEN c ELSE cs[k]]

\* C14: every release a run selects (and so writes to the report or counts
\* into the snapshot) has a deploy date in the target ISO year and week, and
\* a candidate without a resolvable date is dropped without ending the run:
\* a run ends early only if it also would with the candidate dated in the
\* target week.
C14_InWeekAndUndatedDropped ==
    /\ \A i \in 1..Len(run_enablers) :
        /\ parse_iso_date(run_enablers[i].deploy_date) # NoDate
        /\ Isocalendar(parse_iso_date(run_enablers[i].deploy_date))
                = <<target_year, target_week>>
    /\ run_pc = "failed" =>
        \A i \in Processed :
            Undated(run_cands[i]) =>
                Raises(Replaced(run_cands, i,
                                [run_cands[i] EXCEPT
                                    !.issue.histories = RunHistory(run_cands[i].family)]),
                       1, Unbound)

\* C16: a candidate whose full-issue fetch failed is only left out of the
\* selection: the loops go on with the other candidates and the run writes
\* the report and the snapshot; a run ends early only if it also would with
\* the issue fetched.
C16_FailedFetchOnlyDropsIssue ==
    /\ run_pc = "failed" =>
        \A i \in Processed :
            ~run_cands[i].issue.ok =>
                Raises(Replaced(run_cands, i, [run_cands[i] EXCEPT !.issue.ok = TRUE]),
                       1, Unbound)
    /\ \A i \in Processed :
        ~run_cands[i].issue.ok => \A k \in 1..Len(run_enablers) :
                                        run_enablers[k].key # run_cands[i].key

\* s.split(",")
RECURSIVE SplitComma(_)
SplitComma(s) ==
    IF Find(",", s) = 0 THEN <<s>>
    ELSE <<SubSeq(s, 1, Find(",", s) - 1)>> \o SplitComma(SubSeq(s, Find(",", s) + 1, Len(s)))

\* C19: the snapshot entry a run writes has one field for each of the 17
\* families; a field is null or a comma-joined list of distinct versions in
\* ascending numeric-tuple order, and it is non-null only if the run
\* selected a release of that family.
C19_EntryWellFormed ==
    run_entry # NoEntry =>
        /\ DOMAIN run_entry = Families
        /\ \A fam \in Families :
            run_entry[fam] # Null =>
                LET vs == SplitComma(run_entry[fam])
                IN  /\ \A i, j \in 1..Len(vs) :
                            i < j => /\ vs[i] # vs[j]
                                     /\ ~IntSeqLess(vtuple(vs[j]), vtuple(vs[i]))
                    /\ \E k \in 1..Len(run_enablers) : run_enablers[k].family = fam

\* C20: run_workflow skips summarize.py and publish.py for a week only when
\* extract.py selected no release of any family for that week.
C20_SkippedOnlyWhenNothingSelected ==
    run_pc = "skipped" => run_enablers = <<>>

----------------------------------------------------------------------------
(* weekly_stopper.json on disk: load_stopper of extract.py and             *)
(* check_gaps.py, the load of summarize.py, and save_stopper.  run_workflow *)
(* starts the three scripts as processes, and two requests can overlap.    *)
(* The file content is a sequence of JSON tokens; a store is the sequence  *)
(* of its [key, entry] members in dict order.                              *)

Missing == <<"missing">>

Tok(kind, text, entry) == [kind |-> kind, text |-> text, entry |-> entry]

Punct(c) == Tok(c, c, NoEntry)

\* the tokens json.dump writes for the members of data from the i-th on
RECURSIVE DumpMembers(_, _)
DumpMembers(data, i) ==
    IF i > Len(data) THEN <<>>
    ELSE (IF i > 1 THEN <<Punct(",")>> ELSE <<>>)
            \o <<Tok("string", data[i].key, NoEntry), Punct(":"),
                 Tok("object", "", data[i].entry)>>
            \o DumpMembers(data, i + 1)

\* json.dump(data, f, indent=2)
json_dump(data) == <<Punct("{")>> \o DumpMembers(data, 1) \o <<Punct("}")>>

\* d[k] = e on a dict
Put(data, k, e) ==
    IF \E i \in 1..Len(data) : data[i].key = k
    THEN [i \in 1..Len(data) |-> IF data[i].key = k THEN [key |-> k, entry |-> e]
                                 ELSE data[i]]
    ELSE Append(data, [key |-> k, entry |-> e])

\* the members read from tokens text[i..], after `first` or a comma:
\* [ok, data], ok = FALSE for a JSONDecodeError
RECURSIVE LoadMembers(_, _, _)
LoadMembers(text, i, data) ==
    IF /\ i + 2 <= Len(text)
       /\ text[i].kind = "string" /\ text[i + 1].kind = ":" /\ text[i + 2].kind = "object"
    THEN LET more == Put(data, text[i].text, text[i + 2].entry)
         IN  IF i + 3 = Len(text) /\ text[i + 3].kind = "}"
             THEN [ok |-> TRUE, data |-> more]
             ELSE IF i + 3 < Len(text) /\ text[i + 3].kind = ","
             THEN LoadMembers(text, i + 4, more)
             ELSE [ok |-> FALSE, data |-> <<>>]
    ELSE [ok |-> FALSE, data |-> <<>>]

\* json.load(f) on a file with content text
json_load(text) ==
    IF Len(text) = 2 /\ text[1].kind = "{" /\ text[2].kind = "}"
    THEN [ok |-> TRUE, data |-> <<>>]
    ELSE IF Len(text) > 2 /\ text[1].kind = "{" THEN LoadMembers(text, 2, <<>>)
    ELSE [ok |-> FALSE, data |-> <<>>]

\* load_stopper of extract.py and of check_gaps.py: [raised, store]
load_stopper(exists, text) ==
    IF ~exists THEN [raised |-> FALSE, store |-> <<>>]
    ELSE IF json_load(text).ok THEN [raised |-> FALSE, store |-> json_load(text).data]
    ELSE [raised |-> FALSE, store |-> <<>>]

\* summarize.py line 353:
\* json.load(open(STOPPER_FILE)) if os.path.exists(STOPPER_FILE) else {}
SummarizeStopperData(exists, text) ==
    IF ~exists THEN [raised |-> FALSE, store |-> <<>>]
    ELSE IF json_load(text).ok THEN [raised |-> FALSE, store |-> json_load(text).data]
    ELSE [raised |-> TRUE, store |-> <<>>]

MaxStoredWeeks == 2

FileKeys == {"2026-W07", "2026-W08"}

FileEntries == {EntryWith(Null), EntryWith("1.0.0")}

\* the stores a file can hold
FileStores ==
    UNION {{d \in [1..n -> [key : FileKeys, entry : FileEntries]] :
                \A i, j \in 1..n : i # j => d[i].key # d[j].key} :
           n \in 0..MaxStoredWeeks}

\* the complete documents, the documents cut short, and one that starts
\* with a stray token
FileTexts ==
    UNION {{SubSeq(json_dump(d), 1, n) : n \in 0..Len(json_dump(d))} : d \in FileStores}
        \cup {<<Punct("}")>>}

InitFile ==
    /\ file_exists \in BOOLEAN
    /\ file_text \in IF file_exists THEN FileTexts ELSE {<<>>}
    /\ wr_pc = "start"
    /\ wr_old = <<>>
    /\ wr_data = <<>>
    /\ wr_pending = <<>>
    /\ rd_stage = "none"
    /\ rd_text = <<>>
    /\ rd_store = <<>>
    /\ rd_raised = FALSE
    /\ stopper = <<>>
    /\ target_year = 2026
    /\ target_week = 8
    /\ IdleStore
    /\ IdlePersist
    /\ IdleWeek
    /\ IdleDisc
    /\ IdleHist
    /\ IdleSel
    /\ IdleRun
    /\ IdleParse
    /\ IdleFlow
    /\ IdleRcz
    /\ IdleGaps
    /\ IdlePub
    /\ IdleId

\* extract.py: stopper = load_stopper() at the start of a run, and
\* stopper[week_str] = store_entry before save_stopper
WriterLoad ==
    /\ wr_pc = "start"
    /\ \E k \in FileKeys, e \in FileEntries :
        /\ wr_old' = load_stopper(file_exists, file_text).store
        /\ wr_data' = Put(load_stopper(file_exists, file_text).store, k, e)
    /\ wr_pc' = "loaded"
    /\ UNCHANGED <<file_exists, file_text, wr_pending, rd_stage, rd_text, rd_store,
                   rd_raised, outsideFile>>

\* save_stopper: open(WEEKLY_STOPPER, "w") creates or truncates the file
WriterOpen ==
    /\ wr_pc = "loaded"
    /\ file_exists' = TRUE
    /\ file_text' = <<>>
    /\ wr_pending' = json_dump(wr_data)
    /\ wr_pc' = "writing"
    /\ UNCHANGED <<wr_old, wr_data, rd_stage, rd_text, rd_store, rd_raised, outsideFile>>

\* the buffer of the file object is written out when it fills
WriterFlush ==
    /\ wr_pc = "writing"
    /\ \E n \in 1..(Len(wr_pending) - 1) :
        /\ file_text' = file_text \o SubSeq(wr_pending, 1, n)
        /\ wr_pending' = SubSeq(wr_pending, n + 1, Len(wr_pending))
    /\ UNCHANGED <<file_exists, wr_pc, wr_old, wr_data, rd_stage, rd_text, rd_store,
                   rd_raised, outsideFile>>

\* leaving the `with` block writes the rest and closes the file
WriterClose ==
    /\ wr_pc = "writing"
    /\ file_text' = file_text \o wr_pending
    /\ wr_pending' = <<>>
    /\ wr_pc' = "saved"
    /\ UNCHANGED <<file_exists, wr_old, wr_data, rd_stage, rd_text, rd_store, rd_raised,
                   outsideFile>>

\* what a reader finds and goes on with
Observed(result) ==
    /\ rd_text' = IF file_exists THEN file_text ELSE Missing
    /\ rd_store' = result.store
    /\ rd_raised' = result.raised
    /\ UNCHANGED <<file_exists, file_text, wr_pc, wr_old, wr_data, wr_pending, outsideFile>>

\* another extract.py run starts
ExtractLoad ==
    /\ rd_stage' = "extract.py"
    /\ Observed(load_stopper(file_exists, file_text))

\* check_gaps.py starts
CheckGapsLoad ==
    /\ rd_stage' = "check_gaps.py"
    /\ Observed(load_stopper(file_exists, file_text))

\* summarize.py starts
SummarizeLoad ==
    /\ rd_stage' = "summarize.py"
    /\ Observed(SummarizeStopperData(file_exists, file_text))

NextFile ==
    \/ WriterLoad
    \/ WriterOpen
    \/ WriterFlush
    \/ WriterClose
    \/ ExtractLoad
    \/ CheckGapsLoad
    \/ SummarizeLoad

SpecFile == InitFile /\ [][NextFile]_vars

----------------------------------------------------------------------------
(* The store document on disk: claims C15 and C17                          *)

\* C15: a reader that finds no store document, or one that is not a JSON
\* document, goes on with the empty store and does not end with an error, in
\* the extraction stage and in the summarization stage.
C15_BadStoreReadAsEmpty ==
    (rd_stage # "none" /\ (rd_text = Missing \/ ~json_load(rd_text).ok))
        => (~rd_raised /\ rd_store = <<>>)

\* C17: a process that reads the store document while a run saves it gets
\* the complete store the run loaded or the complete store it saves, never
\* an empty or a partly written document.
C17_ReadersSeeOldOrNew ==
    (rd_stage # "none" /\ wr_pc \in {"writing", "saved"}
            /\ wr_old # <<>>)
        => (~rd_raised /\ rd_store \in {wr_old, wr_data})

----------------------------------------------------------------------------
(* summarize.py on an arbitrary report text                                *)

MaxLines == 3

\* the keys of `out` without an entry for RCZ
ChangeSystemsWithoutRcz ==
    {"APIM", "EAH", "DOCG", "VDR", "PATRIC-SSDP", "SYNAPSE", "REFTEL", "CALVA",
     "REFSER2", "SERING", "VDP_PROC", "VDP_DS", "VDP_DS_SSDP", "VDP_DS_MON",
     "VDP_STORE", "VDP_STORE_2"}

\* the keys of `out` in build_changes (line 251)
ChangeSystems ==
    {"APIM", "EAH", "DOCG", "VDR", "PATRIC-SSDP", "RCZ", "SYNAPSE", "REFTEL", "CALVA",
     "REFSER2", "SERING", "VDP_PROC", "VDP_DS", "VDP_DS_SSDP", "VDP_DS_MON",
     "VDP_STORE", "VDP_STORE_2"}

\* out[sysname] raises KeyError for a system that is no key of `out`
BuildChangesRaises(blocks) == \E i \in 1..Len(blocks) : blocks[i].system \notin ChangeSystems

ReportLineSamples ==
    {"", "======= DOCG-1.9.0 (K-1) =======", "======= RCZ (K-2) =======",
     "======= Release notes (K-3) =======", "=======", "(K-9) =======", "Issue: K-1",
     "Issue: K-2 Summary: fix login", "Summary:", "Status: In production",
     "Issue Type: Bug", "No linked issues found."}

InitParse ==
    /\ parse_raw \in {JoinLines(ls) : ls \in UNION {[1..n -> ReportLineSamples] :
                                                        n \in 0..MaxLines}}
    /\ parse_pc = "loaded"
    /\ parse_out = <<>>
    /\ parse_pv = <<>>
    /\ parse_raised = FALSE
    /\ stopper = <<>>
    /\ target_year = 2026
    /\ target_week = 8
    /\ IdleStore
    /\ IdlePersist
    /\ IdleWeek
    /\ IdleDisc
    /\ IdleHist
    /\ IdleSel
    /\ IdleRun
    /\ IdleFile
    /\ IdleFlow
    /\ IdleRcz
    /\ IdleGaps
    /\ IdlePub
    /\ IdleId

\* blocks = parse_blocks(raw)
ParseBlocks ==
    /\ parse_pc = "loaded"
    /\ parse_out' = parse_blocks(parse_raw)
    /\ parse_pc' = "parsed"
    /\ UNCHANGED <<parse_raw, parse_pv, parse_raised, baseVars, outsideParse>>

\* pv = build_changes(blocks)
BuildChanges ==
    /\ parse_pc = "parsed"
    /\ parse_raised' = BuildChangesRaises(parse_out)
    /\ parse_pv' = IF BuildChangesRaises(parse_out) THEN <<>> ELSE build_changes(parse_out)
    /\ parse_pc' = "built"
    /\ UNCHANGED <<parse_raw, parse_out, baseVars, outsideParse>>

NextParse ==
    \/ ParseBlocks
    \/ BuildChanges

SpecParse == InitParse /\ [][NextParse]_vars

----------------------------------------------------------------------------
(* The report parser: claim C18                                            *)

IssueFields ==
    {<<"summary", {"Summary:"}>>, <<"issue_type", {"Issue Type:"}>>,
     <<"status", {"Status:"}>>, <<"owner", {"Owner:", "Assignee:"}>>,
     <<"created", {"Created:"}>>, <<"deploy_date", {"Deploy Date:"}>>}

\* every field of an issue of the block whose labels are nowhere in the
\* issue's part of the body is the empty string
UnmatchedFieldsEmpty(b) ==
    \A i \in 1..Len(extract_issues(b.body)) :
        \A f \in IssueFields :
            (\A l \in f[2] : Find(l, SplitIssues(b.body)[i + 1]) = 0)
                => extract_issues(b.body)[i][f[1]] = ""

\* C18: on any report text parse_blocks, extract_issues and build_changes do
\* not raise; a field whose pattern matches nothing in its issue is the empty
\* string, a block is listed only for a header with a known system, and the
\* empty text gives the empty block list.
C18_ParserDegradesGracefully ==
    /\ ~parse_raised
    /\ parse_pc # "loaded" =>
        /\ parse_raw = "" => parse_out = <<>>
        /\ \A i \in 1..Len(parse_out) :
            /\ parse_out[i].system \in ChangeSystems
            /\ UnmatchedFieldsEmpty(parse_out[i])
    /\ (parse_pc = "built" /\ parse_raw = "") => parse_pv = <<>>

\* a parsed block with an issue that has a summary and no status
C18_Witness ==
    /\ parse_pc = "built"
    /\ \E i \in 1..Len(parse_out) :
        \E k \in 1..Len(extract_issues(parse_out[i].body)) :
            /\ extract_issues(parse_out[i].body)[k].summary # ""
            /\ extract_issues(parse_out[i].body)[k].status = ""
            /\ <<parse_out[i].system, parse_out[i].version>> \in DOMAIN parse_pv

----------------------------------------------------------------------------
(* app.py: run_workflow, the handler of /run                               *)

MaxGaps == 2

\* week = request.args.get("week"); a missing or blank argument is None
RequestWeek(arg) ==
    IF arg = Null \/ arg = "" \/ StripWs(arg) = "" THEN Null ELSE arg

\* unpublished_weeks: the list in the JSON object check_gaps.py printed, []
\* when stdout is empty, is no JSON, is no object or has no such member
UnpublishedWeeks(out) ==
    IF out.kind = "object" THEN out.unpublished_weeks ELSE <<>>

WeeksToProcessTargetFirst(unpublished_weeks, week) ==
    <<week>> \o unpublished_weeks

\* weeks_to_process = unpublished_weeks + ([week] if week else [None])
WeeksToProcess(unpublished_weeks, week) ==
    unpublished_weeks \o <<week>>

\* the --week argument of a command: none when process_week is falsy
WeekOption(process_week) ==
    IF process_week = Null \/ process_week = "" THEN Null ELSE process_week

\* the entry of published_urls for a week without releases
NoReleaseEntry(process_week) ==
    [week |-> IF WeekOption(process_week) = Null THEN "current" ELSE process_week,
     url |-> Null, message |-> "No releases this week"]

PublishedEntry(process_week, page_url) ==
    [week |-> IF WeekOption(process_week) = Null THEN "current" ELSE process_week,
     url |-> page_url]

\* the return after the loop
FinalResponse(published_urls, unpublished_weeks) ==
    IF published_urls = <<>>
    THEN [success |-> TRUE, page_url |-> Null, message |-> "No releases this week",
          all_published |-> <<>>, filled_gaps |-> 0]
    ELSE LET last_entry == published_urls[Len(published_urls)]
         IN  IF last_entry.url = Null
             THEN [success |-> TRUE, page_url |-> Null, message |-> last_entry.message,
                   all_published |-> published_urls,
                   filled_gaps |-> Len(unpublished_weeks)]
             ELSE [success |-> TRUE, page_url |-> last_entry.url,
                   all_published |-> published_urls,
                   filled_gaps |-> Len(unpublished_weeks)]

\* the return on a non-zero exit code
FailureResponse(step, process_week) ==
    [success |-> FALSE, error |-> <<step, process_week>>]

ExitCodes == {0, 1}

\* total_releases as computed from the stdout of extract.py
Totals == {0, 1}

RequestArgs == {Null, " ", "2026-W08"}

GapWeeks == {"2026-W06", "2026-W07"}

\* what check_gaps.py can leave on stdout
GapsOutputs ==
    {[kind |-> "empty"], [kind |-> "not json"], [kind |-> "other json"]}
    \cup {[kind |-> "object", unpublished_weeks |-> ws] :
            ws \in UNION {[1..n -> GapWeeks] : n \in 0..MaxGaps}}

PageUrls == {Null, "https://wiki/page"}

InitFlow ==
    /\ flow_arg \in RequestArgs
    /\ flow_gaps_out = NoEntry
    /\ flow_weeks = <<>>
    /\ flow_i = 0
    /\ flow_pc = "start"
    /\ flow_log = <<>>
    /\ flow_urls = <<>>
    /\ flow_response = NoEntry
    /\ stopper = <<>>
    /\ target_year = 2026
    /\ target_week = 8
    /\ IdleStore
    /\ IdlePersist
    /\ IdleWeek
    /\ IdleDisc
    /\ IdleHist
    /\ IdleSel
    /\ IdleRun
    /\ IdleFile
    /\ IdleParse
    /\ IdleRcz
    /\ IdleGaps
    /\ IdlePub
    /\ IdleId

Ran(step, code) ==
    Append(flow_log, [i |-> flow_i, week |-> WeekOption(flow_weeks[flow_i]),
                      step |-> step, code |-> code])

\* the end of one iteration of the loop over weeks_to_process
NextWeekOrReturn(published_urls) ==
    /\ flow_urls' = published_urls
    /\ IF flow_i < Len(flow_weeks)
       THEN /\ flow_i' = flow_i + 1
            /\ flow_pc' = "extract"
            /\ flow_response' = NoEntry
       ELSE /\ flow_i' = flow_i
            /\ flow_pc' = "returned"
            /\ flow_response' = FinalResponse(published_urls,
                                              UnpublishedWeeks(flow_gaps_out))

Fail(step) ==
    /\ flow_pc' = "returned"
    /\ flow_response' = FailureResponse(step, flow_weeks[flow_i])
    /\ UNCHANGED <<flow_i, flow_urls>>

\* check_gaps.py is run, its exit code is not looked at
FlowCheckGaps ==
    /\ flow_pc = "start"
    /\ \E out \in GapsOutputs :
        /\ flow_gaps_out' = out
        /\ flow_weeks' = WeeksToProcess(UnpublishedWeeks(out), RequestWeek(flow_arg))
    /\ flow_i' = 1
    /\ flow_pc' = "extract"
    /\ UNCHANGED <<flow_arg, flow_log, flow_urls, flow_response, baseVars, outsideFlow>>

FlowExtract ==
    /\ flow_pc = "extract"
    /\ \E code \in ExitCodes, total_releases \in Totals :
        /\ flow_log' = Ran("extract", code)
        /\ IF code # 0
           THEN Fail("Extract")
           ELSE IF total_releases = 0
                THEN NextWeekOrReturn(Append(flow_urls, NoReleaseEntry(flow_weeks[flow_i])))
                ELSE /\ flow_pc' = "summarize"
                     /\ UNCHANGED <<flow_i, flow_urls, flow_response>>
    /\ UNCHANGED <<flow_arg, flow_gaps_out, flow_weeks, baseVars, outsideFlow>>

FlowSummarize ==
    /\ flow_pc = "summarize"
    /\ \E code \in ExitCodes :
        /\ flow_log' = Ran("summarize", code)
        /\ IF code # 0
           THEN Fail("Summarize")
           ELSE /\ flow_pc' = "publish"
                /\ UNCHANGED <<flow_i, flow_urls, flow_response>>
    /\ UNCHANGED <<flow_arg, flow_gaps_out, flow_weeks, baseVars, outsideFlow>>

\* page_url: the first CONFLUENCE_PAGE_URL= line of the output, Null without one
FlowPublish ==
    /\ flow_pc = "publish"
    /\ \E code \in ExitCodes, page_url \in PageUrls :
        /\ flow_log' = Ran("publish", code)
        /\ IF code # 0
           THEN Fail("Publish")
           ELSE NextWeekOrReturn(IF page_url = Null THEN flow_urls
                                 ELSE Append(flow_urls,
                                             PublishedEntry(flow_weeks[flow_i], page_url)))
    /\ UNCHANGED <<flow_arg, flow_gaps_out, flow_weeks, baseVars, outsideFlow>>

NextFlow ==
    \/ FlowCheckGaps
    \/ FlowExtract
    \/ FlowSummarize
    \/ FlowPublish

SpecFlow == InitFlow /\ [][NextFlow]_vars

----------------------------------------------------------------------------
(* The order of the workflow: claim C21                                    *)

StepsInOrder == <<"extract", "summarize", "publish">>

StepIndex(step) == CHOOSE n \in 1..3 : StepsInOrder[n] = step

\* the weeks the workflow is to go through: the reported gap weeks in the
\* reported order, then the target week
ReportedThenTarget ==
    (IF flow_gaps_out.kind = "object" THEN flow_gaps_out.unpublished_weeks ELSE <<>>)
    \o <<IF flow_arg \in {Null, " "} THEN Null ELSE flow_arg>>

\* C21: the commands of run_workflow run week by week through the reported
\* gap weeks in the reported order and then the target week; in a week they
\* run in the order extract, summarize, publish; every command but the first
\* follows a command that exited with 0; a non-zero exit code is the last
\* command of the workflow and the response is success=false; a workflow
\* that returns success has extracted every week, the target week last.
C21_WeeksAndStepsInOrder ==
    flow_pc \notin {"idle", "start"} =>
        /\ \A n \in 1..Len(flow_log) :
            LET c == flow_log[n]
            IN  /\ c.i \in 1..Len(ReportedThenTarget)
                /\ c.week = ReportedThenTarget[c.i]
                /\ n = 1 => c.i = 1 /\ c.step = "extract"
                /\ n > 1 =>
                    LET b == flow_log[n - 1]
                    IN  /\ b.code = 0
                        /\ IF c.step = "extract"
                           THEN c.i = b.i + 1
                           ELSE /\ c.i = b.i
                                /\ StepIndex(c.step) = StepIndex(b.step) + 1
                /\ c.code # 0 =>
                    /\ n = Len(flow_log)
                    /\ flow_pc = "returned"
                    /\ flow_response.success = FALSE
        /\ (flow_pc = "returned" /\ flow_response.success) =>
                /\ flow_log # <<>>
                /\ flow_log[Len(flow_log)].i = Len(ReportedThenTarget)
                /\ flow_log[Len(flow_log)].code = 0

\* a workflow with two gap weeks that failed in the second one, after the
\* first one was published
C21_Witness ==
    /\ flow_pc = "returned"
    /\ Len(flow_weeks) = 3
    /\ flow_weeks[1] # flow_weeks[2]
    /\ flow_response.success = FALSE
    /\ Len(flow_log) = 5
    /\ flow_log[3].step = "publish"
    /\ flow_log[5].step = "summarize"
    /\ flow_log[5].i = 2

----------------------------------------------------------------------------
(* APIM / EAH selection: claim C22                                         *)

\* the changelog has a first transition to "In production" and its date is
\* in the target ISO year and week
ProdTransitionInTargetWeek(hs) ==
    LET d == parse_iso_date(get_prod_date_from_history(hs))
    IN  d # NoDate /\ Isocalendar(d) = <<target_year, target_week>>

\* C22: an APIM or EAH issue is selected exactly when its changelog has a
\* first transition to "In production" in the target ISO week and year,
\* whatever the issue's current status is.
C22_ApimEahSelectedByProdTransition ==
    (sel_result # NoEntry /\ sel_cand.family \in {"APIM", "EAH"}) =>
        ((sel_result.enabler # NoEntry)
            <=> ProdTransitionInTargetWeek(sel_cand.issue.histories))

----------------------------------------------------------------------------
(* extract.py: get_rcz_release_date on the changelog of an RCZ issue       *)

RczToStatuses ==
    {"In production", "Awaiting Go / No go PROD", "Deploying to PROD",
     "Deploying to PPROD"}

RczCreateds == {Stamp("2026-02-03"), Stamp("2026-02-10"), ""}

MaxRczHistories == 3

RczChangelogs ==
    UNION {[1..n -> {[created |-> c, items |-> <<StatusItem(to)>>] :
                        c \in RczCreateds, to \in RczToStatuses}] :
           n \in 0..MaxRczHistories}

InitRcz ==
    /\ histories \in RczChangelogs
    /\ prod_date = Pending
    /\ deploying_date = Pending
    /\ awaiting_date = Pending
    /\ rcz_date = Pending
    /\ stopper = <<>>
    /\ target_year = 2026
    /\ target_week = 6
    /\ IdleStore
    /\ IdlePersist
    /\ IdleWeek
    /\ IdleDisc
    /\ IdleSel
    /\ IdleRun
    /\ IdleFile
    /\ IdleParse
    /\ IdleFlow
    /\ IdleGaps
    /\ IdlePub
    /\ IdleId

\* deploy_date_str = get_rcz_release_date(full)
GetRczReleaseDate ==
    /\ rcz_date = Pending
    /\ rcz_date' = get_rcz_release_date(histories)
    /\ UNCHANGED outsideRcz

NextRcz == GetRczReleaseDate

SpecRcz == InitRcz /\ [][NextRcz]_vars

----------------------------------------------------------------------------
(* The RCZ release date: claim C23                                         *)

\* the date of the first stamped transition to exactly `status`, Null
\* without one
FirstTransitionTo(hs, status) ==
    LET hits == {i \in 1..Len(hs) :
                    /\ hs[i].created # ""
                    /\ \E j \in 1..Len(hs[i].items) :
                        hs[i].items[j].field = "status"
                        /\ hs[i].items[j].toString = status}
    IN  IF hits = {} THEN Null
        ELSE SplitT(hs[CHOOSE i \in hits : \A j \in hits : i <= j].created)

\* C23: get_rcz_release_date returns the date of the first transition to
\* "In production" if there is one, else of the first transition to
\* "Awaiting Go / No go PROD", else of the first transition to
\* "Deploying to PPROD", and None when there is none of them, wherever
\* the events are in the history.
C23_RczDateByPriority ==
    rcz_date # Pending =>
        rcz_date =
            IF FirstTransitionTo(histories, "In production") # Null
            THEN FirstTransitionTo(histories, "In production")
            ELSE IF FirstTransitionTo(histories, "Awaiting Go / No go PROD") # Null
            THEN FirstTransitionTo(histories, "Awaiting Go / No go PROD")
            ELSE FirstTransitionTo(histories, "Deploying to PPROD")

----------------------------------------------------------------------------
(* extract.py: one run on releases in every status the loops admit         *)

MaxSnapCandidates == 2

\* a changelog whose three trigger transitions all fall in RunWeek
TransitionsInRunWeek ==
    <<[created |-> Stamp("2026-02-16"), items |-> <<StatusItem("Awaiting Go / No go PROD")>>],
      [created |-> Stamp("2026-02-17"), items |-> <<StatusItem("Deploying to PROD")>>],
      [created |-> Stamp("2026-02-18"), items |-> <<StatusItem("In production")>>]>>

SnapStatuses ==
    {"In production", "Deploying to PROD", "Deploying To PROD",
     "Awaiting Go / No go PROD"}

SnapFamilies ==
    {"APIM", "EAH", "DOCG", "VDR", "PATRIC-SSDP", "VDP_PROC", "VDP_DS",
     "VDP_DS_SSDP", "VDP_DS_MON", "VDP_STORE", "VDP_STORE_2"}

\* the candidate of a board issue of family fam in status st
SnapCandidate(fam, st, v) ==
    [RunCandidate(fam, "selected", v, Null) EXCEPT
        !.status = st,
        !.issue.status = st,
        !.issue.histories = TransitionsInRunWeek]

SnapBoard ==
    {SnapCandidate(fam, st, "1.9.0") : fam \in SnapFamilies, st \in SnapStatuses}
    \cup {SnapCandidate(fam, "In production", "1.10.0") : fam \in {"APIM", "DOCG"}}

InitSnap ==
    /\ \E n \in 0..MaxSnapCandidates :
        \E cs \in [1..n -> SnapBoard] : InLoopOrder(cs) /\ run_cands = Keyed(cs)
    /\ run_pos = 1
    /\ run_pc = "select"
    /\ run_summary_full = Unbound
    /\ run_enablers = <<>>
    /\ run_report = ""
    /\ run_entry = NoEntry
    /\ run_total = NoneInt
    /\ run_blocks = <<>>
    /\ stopper = <<>>
    /\ target_year = 2026
    /\ target_week = RunWeek
    /\ IdleStore
    /\ IdlePersist
    /\ IdleWeek
    /\ IdleDisc
    /\ IdleHist
    /\ IdleSel
    /\ IdleFile
    /\ IdleParse
    /\ IdleFlow
    /\ IdleRcz
    /\ IdleGaps
    /\ IdlePub
    /\ IdleId

NextSnap ==
    \/ RunSelect
    \/ RunWriteReport
    \/ RunPersist

SpecSnap == InitSnap /\ [][NextSnap]_vars

----------------------------------------------------------------------------
(* The statuses of the snapshot: claim C24                                 *)

\* the statuses a family's versions are stored for
StoredStatuses(fam) ==
    CASE fam \in {"APIM", "EAH", "DOCG", "PATRIC-SSDP"} -> {"In production"}
      [] fam = "VDR" -> {"Deploying to PROD"}
      [] OTHER -> {"In production", "Deploying to PROD"}

----------------------------------------------------------------------------
(* check_gaps.py: the weeks to publish before the target week              *)

\* has_updates(week_data)
has_updates(week_data) ==
    /\ week_data # NoEntry
    /\ \E key \in DOMAIN week_data : IsValue(week_data[key])

\* sub in s, for a character
HasChar(c, s) == \E i \in 1..Len(s) : s[i] = c

\* get_page_title_for_week: the text after "SSDP Release Notes Week "
get_page_title_for_week(year, week, display_key, day) ==
    IF HasChar("-", display_key) \/ HasChar("W", display_key) THEN display_key
    ELSE IF year # day[1] THEN week_str(year, week)
    ELSE display_key

\* known_published, the texts after "SSDP Release Notes Week "
known_published ==
    {Str(w) : w \in 45..51} \cup {week_str(2025, w) : w \in 45..51}

\* confluence_page_exists(title)
confluence_page_exists(title, env, pages) ==
    CASE env = "no credentials" -> title \in known_published
      [] env = "answers" -> title \in pages
      [] OTHER -> FALSE

\* (check_date := today - timedelta(days=days_back)).isocalendar()[:2]
IsoWeekDaysBack(day, days_back) ==
    LET ord == ToOrdinal(day) - days_back
        y == CHOOSE y \in (day[1] - 1)..(day[1] + 1) :
                IsoWeek1Monday(y) <= ord /\ ord < IsoWeek1Monday(y + 1)
    IN  <<y, (ord - IsoWeek1Monday(y)) \div 7 + 1>>

\* check_weeks
check_weeks(day) == {IsoWeekDaysBack(day, 7 * n) : n \in 1..4}

\* weeks_with_data after the loop over the store keys
StoreWeeks(st, ty, tw) ==
    {t \in {<<check_gaps_parse_stopper_key(k, ty, tw)[1],
              check_gaps_parse_stopper_key(k, ty, tw)[2], k>> : k \in DOMAIN st} :
        t[1] # NoneInt /\ t[2] # NoneInt /\ has_updates(st[t[3]])}

\* the tuples appended for the recent weeks that are not in weeks_with_data
RecentWeeks(st, ty, tw, day) ==
    {<<yw[1], yw[2],
       IF yw[1] # day[1] THEN week_str(yw[1], yw[2]) ELSE Str(yw[2])>> :
        yw \in {c \in check_weeks(day) :
                    /\ WeekLess(c[1], c[2], ty, tw)
                    /\ ~\E t \in StoreWeeks(st, ty, tw) : t[1] = c[1] /\ t[2] = c[2]}}

\* unpublished_weeks
unpublished_weeks(st, ty, tw, day, env, pages) ==
    LET weeks_with_data ==
            SortTuples(StoreWeeks(st, ty, tw) \cup RecentWeeks(st, ty, tw, day))
        Test(t) ==
            /\ WeekLess(t[1], t[2], ty, tw)
            /\ ~confluence_page_exists(get_page_title_for_week(t[1], t[2], t[3], day),
                                       env, pages)
    IN  SelectSeq(weeks_with_data, Test)

\* unpublished_list
unpublished_list(weeks, day) ==
    [i \in 1..Len(weeks) |->
        IF weeks[i][1] # day[1] THEN week_str(weeks[i][1], weeks[i][2])
        ELSE weeks[i][3]]

MaxGapEntries == 2

GapTodays == {<<2026, 2, 18>>, <<2026, 1, 7>>}

GapArgs == {NoArg, <<"2", "0", "2", "6", "-", "W", "0", "8">>, <<"7">>}

GapKeys ==
    {<<"7">>, <<"5", "2">>, week_str(2026, 7), week_str(2026, 6), week_str(2026, 8),
     week_str(2025, 52)}

GapEntries == {EntryWith("1.0.0"), EntryWith(Null)}

GapStores ==
    UNION {[ks -> GapEntries] : ks \in {s \in SUBSET GapKeys : Cardinality(s) <= MaxGapEntries}}

GapPages == SUBSET {<<"7">>, week_str(2026, 7)}

InitGaps ==
    /\ gaps_today \in GapTodays
    /\ gaps_argv \in GapArgs
    /\ gaps_env \in {"no credentials", "answers", "fails"}
    /\ gaps_pages \in GapPages
    /\ gaps_pc = "args"
    /\ gaps_weeks = <<>>
    /\ gaps_list = <<>>
    /\ gaps_exit = NoneInt
    /\ stopper \in GapStores
    /\ target_year = 0
    /\ target_week = 0
    /\ IdleStore
    /\ IdlePersist
    /\ IdleWeek
    /\ IdleDisc
    /\ IdleHist
    /\ IdleSel
    /\ IdleRun
    /\ IdleFile
    /\ IdleParse
    /\ IdleFlow
    /\ IdleRcz
    /\ IdlePub
    /\ IdleId

\* lines 24-49: --week and the target week
GapsStartup ==
    /\ gaps_pc = "args"
    /\ LET yw == IF gaps_argv = NoArg THEN <<NoneInt, NoneInt>>
                 ELSE parse_week_arg(gaps_argv)
       IN  /\ target_year' = OrElse(yw[1], Isocalendar(gaps_today)[1])
           /\ target_week' = OrElse(yw[2], Isocalendar(gaps_today)[2])
    /\ gaps_pc' = "main"
    /\ UNCHANGED <<stopper, gaps_today, gaps_argv, gaps_env, gaps_pages, gaps_weeks,
                   gaps_list, gaps_exit, outsideGaps>>

\* main()
GapsMain ==
    /\ gaps_pc = "main"
    /\ LET weeks == unpublished_weeks(stopper, target_year, target_week, gaps_today,
                                      gaps_env, gaps_pages)
       IN  /\ gaps_weeks' = weeks
           /\ gaps_list' = unpublished_list(weeks, gaps_today)
           /\ gaps_exit' = IF weeks = <<>> THEN 0 ELSE 1
    /\ gaps_pc' = "exited"
    /\ UNCHANGED <<baseVars, gaps_today, gaps_argv, gaps_env, gaps_pages, outsideGaps>>

NextGaps ==
    \/ GapsStartup
    \/ GapsMain

SpecGaps == InitGaps /\ [][NextGaps]_vars

----------------------------------------------------------------------------
(* The listed weeks: claim C25                                             *)

\* the store holds a non-null family value under a key of week (year, week)
HasStoredValue(year, week) ==
    \E k \in DOMAIN stopper :
        /\ check_gaps_parse_stopper_key(k, target_year, target_week) = <<year, week>>
        /\ \E f \in DOMAIN stopper[k] : stopper[k][f] # Null

\* a page of the week exists, under the title publish.py gives it or under
\* the title check_gaps.py asks for
HasPublishedPage(t) ==
    \/ week_str(t[1], t[2]) \in gaps_pages
    \/ get_page_title_for_week(t[1], t[2], t[3], gaps_today) \in gaps_pages

\* C25: every week in unpublished_weeks is strictly before the target
\* week, has a non-null family value in the snapshot store and has no
\* published page; the exit status is 1 exactly when the list is not empty.
C25_ListedWeeksHaveUnpublishedData ==
    gaps_pc = "exited" =>
        /\ \A i \in 1..Len(gaps_weeks) :
            /\ WeekLess(gaps_weeks[i][1], gaps_weeks[i][2], target_year, target_week)
            /\ HasStoredValue(gaps_weeks[i][1], gaps_weeks[i][2])
            /\ ~HasPublishedPage(gaps_weeks[i])
        /\ Len(gaps_list) = Len(gaps_weeks)
        /\ (gaps_exit = 1) <=> (gaps_list # <<>>)
        /\ gaps_exit \in {0, 1}

----------------------------------------------------------------------------
(* extract.py and summarize.py: the issue sub-blocks of one release        *)

MaxLinks == 2

\* the issues linked to the release, as extract_linked_issues_from_issue_json
\* reads them from the issuelinks of the fetched issue
IssueLinks ==
    {[key |-> "DOCG-7", type |-> "relates to", summary |-> s, status |-> st,
      issuetype |-> t, assignee |-> oc[1], created |-> oc[2]] :
        s \in {"fix login", "show Status: on page", ""}, st \in {"Done", ""},
        t \in {"Bug", ""}, oc \in {<<"Ann", "2026-02-01">>, <<"", "">>}}

\* a DOCG release the selection loop appended
IssueEnablers ==
    {[family |-> "DOCG", key |-> "SSDP-1", enabler_name |-> "DOCG",
      enabler_version |-> "1.9.0", summary |-> "DOCG-1.9.0", status |-> "In production",
      assignee |-> a, issuetype |-> EnablerIssueType, deploy_date |-> "2026-02-17",
      links |-> ls] :
        a \in {"Ann", ""}, ls \in UNION {[1..n -> IssueLinks] : n \in 0..MaxLinks}}

InitIssue ==
    /\ run_cands = <<>>
    /\ run_pos = 1
    /\ run_pc = "select"
    /\ run_summary_full = "DOCG-1.9.0"
    /\ \E e \in IssueEnablers : run_enablers = <<e>>
    /\ run_report = ""
    /\ run_entry = NoEntry
    /\ run_total = NoneInt
    /\ run_blocks = <<>>
    /\ stopper = <<>>
    /\ target_year = 2026
    /\ target_week = RunWeek
    /\ IdleStore
    /\ IdlePersist
    /\ IdleWeek
    /\ IdleDisc
    /\ IdleHist
    /\ IdleSel
    /\ IdleFile
    /\ IdleParse
    /\ IdleFlow
    /\ IdleRcz
    /\ IdleGaps
    /\ IdlePub
    /\ IdleId

NextIssue ==
    \/ RunWriteReport
    \/ RunPersist
    \/ RunCountReleases
    \/ RunSummarize

SpecIssue == InitIssue /\ [][NextIssue]_vars

----------------------------------------------------------------------------
(* The fields of the issue sub-blocks: claim C26                           *)

\* what the serializer wrote on the field lines of the release's own
\* sub-block and of the sub-block of a linked issue; "" for a line it left
\* out
SerializedRelease(e) ==
    [summary |-> e.summary, issue_type |-> e.issuetype, status |-> e.status,
     owner |-> e.assignee, created |-> "", deploy_date |-> e.deploy_date]

SerializedLinked(l) ==
    [summary |-> StripText(l.summary), issue_type |-> l.issuetype, status |-> l.status,
     owner |-> l.assignee, created |-> l.created, deploy_date |-> ""]

SerializedIssues(e) ==
    <<SerializedRelease(e)>>
        \o [i \in 1..Len(LinkedIssues(e.links)) |-> SerializedLinked(LinkedIssues(e.links)[i])]

\* C26: for every issue sub-block the serializer wrote, extract_issues
\* returns for Summary, Status, Owner, Issue Type, Created and Deploy Date
\* the value serialized on that field's line, and "" when the line is absent
\* or its value is empty.
C26_FieldsReadBackAsWritten ==
    run_pc = "publish" =>
        /\ Len(run_blocks) = 1
        /\ extract_issues(run_blocks[1].body) = SerializedIssues(run_enablers[1])

----------------------------------------------------------------------------
(* publish.py: main                                                        *)

\* how Confluence answers a request: with the status the request is made
\* for, with another status, or not at all (requests raises)
Answers == {"ok", "error status", "no answer"}

PageId == "4711"

InitPub ==
    /\ pub_week \in {"2026-W06", "2026-W07", "2026-W08"}
    /\ pub_html \in BOOLEAN
    /\ pub_existed \in BOOLEAN
    /\ pub_exists = pub_existed
    /\ pub_pc = "start"
    /\ pub_first = FALSE
    /\ pub_page_id = Null
    /\ pub_log = <<>>
    /\ pub_done = "nothing"
    /\ pub_notified = FALSE
    /\ pub_exit = NoneInt
    /\ stopper = <<>>
    /\ target_year = 2026
    /\ target_week = 8
    /\ IdleStore
    /\ IdlePersist
    /\ IdleWeek
    /\ IdleDisc
    /\ IdleHist
    /\ IdleSel
    /\ IdleRun
    /\ IdleFile
    /\ IdleParse
    /\ IdleFlow
    /\ IdleRcz
    /\ IdleGaps
    /\ IdleId

\* check_page_exists(title): False unless the search answered 200 with a result
check_page_exists(answer, exists) == answer = "ok" /\ exists

\* confluence_search_page(title): the id of the first result, None for no
\* result and for another status
confluence_search_page(answer, exists) ==
    IF answer = "ok" /\ exists THEN PageId ELSE Null

\* is_first_time_generation = not check_page_exists(title)
PubCheckPageExists ==
    /\ pub_pc = "start"
    /\ IF ~pub_html
       THEN /\ pub_pc' = "exited"
            /\ pub_exit' = 1
            /\ UNCHANGED <<pub_first, pub_log>>
       ELSE \E answer \in Answers :
            /\ pub_first' = ~check_page_exists(answer, pub_exists)
            /\ pub_log' = Append(pub_log, <<"check_page_exists", answer>>)
            /\ pub_pc' = "search"
            /\ pub_exit' = pub_exit
    /\ UNCHANGED <<pub_week, pub_html, pub_existed, pub_exists, pub_page_id, pub_done,
                   pub_notified, baseVars, outsidePub>>

\* page_id = confluence_search_page(title); a request that raises ends the
\* script with a traceback
PubSearchPage ==
    /\ pub_pc = "search"
    /\ \E answer \in Answers :
        /\ pub_log' = Append(pub_log, <<"confluence_search_page", answer>>)
        /\ IF answer = "no answer"
           THEN /\ pub_pc' = "exited"
                /\ pub_exit' = 1
                /\ pub_page_id' = pub_page_id
           ELSE /\ pub_page_id' = confluence_search_page(answer, pub_exists)
                /\ pub_pc' = "write"
                /\ pub_exit' = pub_exit
    /\ UNCHANGED <<pub_week, pub_html, pub_existed, pub_exists, pub_first, pub_done,
                   pub_notified, baseVars, outsidePub>>

\* the rest of main once url is known
Published(url_found, done) ==
    /\ pub_done' = IF url_found THEN done ELSE "nothing"
    /\ pub_notified' = (url_found /\ pub_first)
    /\ pub_exit' = IF url_found THEN 0 ELSE 1
    /\ pub_pc' = "exited"

\* url = confluence_update_page(page_id, title, html), then the notification;
\* a request that raises ends the script with exit status 1, as a missing url
PubUpdatePage ==
    /\ pub_pc = "write"
    /\ pub_page_id # Null
    /\ \E info \in Answers, put \in Answers :
        /\ pub_log' = IF info = "ok"
                      THEN pub_log \o <<<<"page info", info>>, <<"update", put>>>>
                      ELSE Append(pub_log, <<"page info", info>>)
        /\ Published(info = "ok" /\ put = "ok", "updated")
    /\ UNCHANGED <<pub_week, pub_html, pub_existed, pub_exists, pub_first, pub_page_id,
                   baseVars, outsidePub>>

\* url = confluence_create_page(title, html), then the notification;
\* Confluence refuses a second page with the same title in the space
PubCreatePage ==
    /\ pub_pc = "write"
    /\ pub_page_id = Null
    /\ \E post \in Answers :
        /\ post = "ok" => ~pub_exists
        /\ pub_log' = Append(pub_log, <<"create", post>>)
        /\ pub_exists' = (pub_exists \/ post = "ok")
        /\ Published(post = "ok", "created")
    /\ UNCHANGED <<pub_week, pub_html, pub_existed, pub_first, pub_page_id, baseVars,
                   outsidePub>>

NextPub ==
    \/ PubCheckPageExists
    \/ PubSearchPage
    \/ PubUpdatePage
    \/ PubCreatePage

SpecPub == InitPub /\ [][NextPub]_vars

----------------------------------------------------------------------------
(* The notification email: claim C27                                       *)

\* C27: publish.py calls for the notification email only in a run before
\* which no page with the week's title existed and which created the page;
\* a run that updates an existing page sends none.
C27_EmailOnlyForFirstGeneration ==
    /\ pub_notified => (~pub_existed /\ pub_done = "created")
    /\ pub_done = "updated" => ~pub_notified

----------------------------------------------------------------------------
(* The summary of a VDP_DS record: claim C28                               *)

\* the iteration of the VDP_DS loop on candidate c had it read the summary
\* of c's own issue
OwnSummaryStep(c) == SelectStep("VDP_DS", c, StripText(c.issue.summary))

\* C28: every record of the base VDP_DS selection carries the summary of
\* the issue fetched for its key, and a VDP_DS candidate is kept or dropped
\* as its own summary decides, whatever candidates of other families were
\* processed before it.
C28_VdpDsUsesOwnSummary ==
    \A i \in 1..Len(run_cands) :
        (i < run_pos /\ run_cands[i].family = "VDP_DS") =>
            LET c == run_cands[i]
                kept == {n \in 1..Len(run_enablers) : run_enablers[n].key = c.key}
            IN  /\ \A n \in kept : run_enablers[n].summary = StripText(c.issue.summary)
                /\ (kept # {}) <=> (OwnSummaryStep(c).enabler # NoEntry)

----------------------------------------------------------------------------
(* The week identifier of one request: extract.py, summarize.py and        *)
(* publish.py run in this order with the same --week argument on one day   *)

\* a WEEK_FILE left by an earlier run, or none
WeekFiles == {Null, week_str(2026, 5)}

InitWeekId ==
    /\ id_argv \in {ArgText(p) : p \in ArgParts} \cup {NoArg}
    /\ id_today \in Todays
    /\ id_pc = "extract"
    /\ id_week_str = Null
    /\ id_display = Null
    /\ id_week_file \in WeekFiles
    /\ id_title_week = Null
    /\ id_exit = NoneInt
    /\ stopper = <<>>
    /\ target_year = 0
    /\ target_week = 0
    /\ IdleStore
    /\ IdlePersist
    /\ IdleWeek
    /\ IdleDisc
    /\ IdleHist
    /\ IdleSel
    /\ IdleRun
    /\ IdleFile
    /\ IdleParse
    /\ IdleFlow
    /\ IdleRcz
    /\ IdleGaps
    /\ IdlePub

\* `if forced_week_raw: ... = parse_week_arg(forced_week_raw)`, else both None
forced(argv) ==
    IF argv = NoArg \/ argv = <<>> THEN <<NoneInt, NoneInt>> ELSE parse_week_arg(argv)

\* `x if x is not None else y`
OrIfNone(x, y) == IF x # NoneInt THEN x ELSE y

\* extract.py lines 99-114: target week, validation, week_str; the run can
\* still fail afterwards (board fetch, exit 1) or find no release (exit 0,
\* app.py lines 292-300), which ends the sequence
IdExtract ==
    /\ id_pc = "extract"
    /\ LET yw == IF id_argv = NoArg THEN <<NoneInt, NoneInt>>
                 ELSE parse_week_arg(id_argv)
           ty == OrElse(yw[1], Isocalendar(id_today)[1])
           tw == OrElse(yw[2], Isocalendar(id_today)[2])
       IN  IF tw < 1 \/ tw > weeks_in_year(ty)
           THEN /\ id_week_str' = id_week_str
                /\ id_pc' = "stopped"
                /\ id_exit' = 1
           ELSE /\ id_week_str' = week_str(ty, tw)
                /\ \/ id_pc' = "summarize" /\ id_exit' = id_exit
                   \/ id_pc' = "stopped" /\ id_exit' \in {0, 1}
    /\ UNCHANGED <<id_argv, id_today, id_display, id_week_file, id_title_week,
                   outsideId>>

\* summarize.py read_week (lines 91-112) and the WEEK_FILE written at the
\* end of the run (lines 1189-1190)
IdSummarize ==
    /\ id_pc = "summarize"
    /\ LET f    == forced(id_argv)
           year == OrIfNone(f[1], Isocalendar(id_today)[1])
           week == OrIfNone(f[2], Isocalendar(id_today)[2])
       IN  IF week < 1 \/ week > Isocalendar(<<year, 12, 28>>)[2]
           THEN /\ id_pc' = "stopped"
                /\ id_exit' = 1
                /\ UNCHANGED <<id_display, id_week_file>>
           ELSE /\ id_display' = week_str(year, week)
                /\ id_week_file' = week_str(year, week)
                /\ id_pc' = "publish"
                /\ id_exit' = id_exit
    /\ UNCHANGED <<id_argv, id_today, id_week_str, id_title_week, outsideId>>

\* re.match(r"^\d{4}-W\d{1,2}$", content)
HasYearFormat(content) ==
    /\ Len(content) \in {7, 8}
    /\ IsDigits(SubSeq(content, 1, 4))
    /\ SubSeq(content, 5, 6) = <<"-", "W">>
    /\ IsDigits(SubSeq(content, 7, Len(content)))

\* publish.py read_week (lines 71-98): the forced week, then the WEEK_FILE
\* content, then today; a year that is not given is date.today().year
read_week(argv, day, week_file) ==
    LET f == forced(argv)
    IN  IF f[2] # NoneInt
        THEN IF f[1] # NoneInt /\ f[1] # 0
             THEN week_str(f[1], f[2])
             ELSE week_str(day[1], f[2])
        ELSE IF week_file # Null
        THEN IF ~HasYearFormat(week_file) /\ week_file # <<>> /\ IsDigits(week_file)
             THEN week_str(day[1], ToInt(week_file))
             ELSE week_file
        ELSE week_str(day[1], Isocalendar(day)[2])

\* publish.py main, line 306: the week of the page title
IdPublish ==
    /\ id_pc = "publish"
    /\ id_title_week' = read_week(id_argv, id_today, id_week_file)
    /\ id_pc' = "done"
    /\ UNCHANGED <<id_argv, id_today, id_week_str, id_display, id_week_file,
                   id_exit, outsideId>>

NextWeekId == IdExtract \/ IdSummarize \/ IdPublish

SpecWeekId == InitWeekId /\ [][NextWeekId]_vars

\* C29: for the same --week argument and the same current date, the
\* snapshot key of extract.py, the week display and week file of
\* summarize.py and the page title week of publish.py are one and the same
\* YYYY-Wnn identifier, also without a year in the argument and on a date
\* whose ISO year is not its calendar year
C29_SameWeekIdentifier ==
    /\ id_display # Null =>
           id_display = id_week_str /\ id_week_file = id_display
    /\ id_title_week # Null =>
           id_title_week = id_week_str /\ id_title_week = id_display

====
